---- MODULE Spec2Model ----
(***************************************************************************)
(* Model of the schema-to-class registry and lazy type resolution of       *)
(* nestjs-zod (packages/nestjs-zod/src/dto.ts): the two WeakMaps, the      *)
(* pending-registration Map, the nextTick-deferred drain, the decorators   *)
(* ZodObjectType / ZodInputType, getGraphQLFieldType, getOrCreateDtoClass, *)
(* createZodDto's GraphQL branch, preRegisterAllDtos and the helper        *)
(* accessors.                                                              *)
(***************************************************************************)
EXTENDS Integers, Sequences, FiniteSets, TLC

(* ------------------------------------------------------------------ *)
(* Bounds of the model                                                 *)
(* ------------------------------------------------------------------ *)

\* cap of the pendingMatches counter kept in the state
MaxStat == 2

\* the host call (1-based) that may be made to throw; 0 means none throws
MaxFailAt == 2

\* callbacks that may sit in the nextTick queue
MaxTicks == 2

(* ------------------------------------------------------------------ *)
(* Values                                                              *)
(* ------------------------------------------------------------------ *)

\* JavaScript's undefined, for a missing schema, class or Map entry
Undefined == "undefined"

\* The classes the user declares.  AuthorDto extends createZodDto(AuthorSchema);
\* PostDto is a bare class.
UserClasses == {"PostDto", "AuthorDto"}

\* The zod schema instances of the model, by identity.
SchemaIds ==
  {"zString", "zNumber", "AuthorSchema", "AuthorDescribed", "AuthorArray",
   "AuthorOptional", "PostSchema", "BlogSchema"}

\* Object.keys(shape): the field names of a shape.
Keys(shape) == {shape[i].name : i \in 1..Len(shape)}

\* The schema instances built by the callers with a zod
\* constructor; every other instance is the result of a method call on one
\* of these and is named by the call that built it (see Derive).
AuthorShape ==
  << [name |-> "id", schema |-> "zNumber"],
     [name |-> "name", schema |-> "zString"] >>

PostShape ==
  << [name |-> "title", schema |-> "zString"],
     [name |-> "author", schema |-> "AuthorSchema"],
     [name |-> "authors", schema |-> "AuthorArray"] >>

\* A schema with one field of every kind getGraphQLFieldType tells apart.
ProfileShape ==
  << [name |-> "nickname", schema |-> "zString.optional()"],
     [name |-> "age", schema |-> "zNumber.nullable()"],
     [name |-> "active", schema |-> "zBoolean.default()"],
     [name |-> "joined", schema |-> "zDate"],
     [name |-> "tags", schema |-> "zString.optional().array()"],
     [name |-> "role", schema |-> "zRole"],
     [name |-> "balance", schema |-> "zBigInt"] >>

\* The raw shapes handed to extend(), by name.
Augmentation(name) ==
  CASE name = "TagsShape" ->
         << [name |-> "tags", schema |-> "zString.optional().array()"] >>
    [] name = "NameShape" ->
         << [name |-> "name", schema |-> "zString.optional()"] >>

Augmentations == {"TagsShape", "NameShape"}

\* The key lists handed to pick() and omit().
KeyLists == { << "id" >>, << "name", "title" >> }

\* String.prototype.toLowerCase on the letters A-Z
UpperCase == "ABCDEFGHIJKLMNOPQRSTUVWXYZ"

LowerCase == "abcdefghijklmnopqrstuvwxyz"

RECURSIVE toLowerCase(_)
toLowerCase(str) ==
  IF str = "" THEN ""
  ELSE LET c == SubSeq(str, 1, 1)
           hits == {i \in 1..Len(UpperCase) : SubSeq(UpperCase, i, i) = c}
           lc == IF hits = {} THEN c
                 ELSE LET i == CHOOSE i \in hits : TRUE
                      IN  SubSeq(LowerCase, i, i)
       IN  lc \o toLowerCase(SubSeq(str, 2, Len(str)))

\* String.prototype.includes
includes(str, searchString) ==
  \E i \in 1..(Len(str) - Len(searchString) + 1) :
    SubSeq(str, i, i + Len(searchString) - 1) = searchString

\* Array.prototype.join(',')
RECURSIVE Join(_)
Join(keys) ==
  IF keys = << >> THEN ""
  ELSE IF Len(keys) = 1 THEN keys[1]
  ELSE keys[1] \o "," \o Join(Tail(keys))

\* A method call on a schema: the method and the text of its argument (a key
\* list, the name of a raw shape, a schema, or nothing).
ZodCall(op, arg) == [op |-> op, arg |-> arg]

\* The instance a method call on schema s returns: a new object, named by the
\* receiver and the call.
Derive(s, call) == s \o "." \o call.op \o "(" \o call.arg \o ")"

\* _def of the instances built by a constructor: typeName, shape() (ordered
\* name/schema pairs), type (array element, branded type), innerType
\* (optional/nullable/default) and description.  AuthorDescribed is
\* AuthorSchema.describe('Post author'): zod's describe() builds a new instance
\* of the same class over the same _def plus the description, so it shares the
\* shape and has no innerType.
Leaf(typeName) ==
  [typeName |-> typeName, shape |-> << >>, type |-> Undefined,
   innerType |-> Undefined, description |-> Undefined]

BaseDef(s) ==
  CASE s = "zString" -> Leaf("ZodString")
    [] s = "zNumber" -> Leaf("ZodNumber")
    [] s = "zBoolean" -> Leaf("ZodBoolean")
    [] s = "zDate" -> Leaf("ZodDate")
    [] s = "zRole" -> Leaf("ZodEnum")
    [] s = "zBigInt" -> Leaf("ZodBigInt")
    [] s = "AuthorSchema" ->
         [typeName |-> "ZodObject", shape |-> AuthorShape, type |-> Undefined,
          innerType |-> Undefined, description |-> Undefined]
    [] s = "AuthorDescribed" ->
         [typeName |-> "ZodObject", shape |-> AuthorShape, type |-> Undefined,
          innerType |-> Undefined, description |-> "Post author"]
    [] s = "AuthorArray" ->
         [typeName |-> "ZodArray", shape |-> << >>, type |-> "AuthorSchema",
          innerType |-> Undefined, description |-> Undefined]
    [] s = "AuthorOptional" ->
         [typeName |-> "ZodOptional", shape |-> << >>, type |-> Undefined,
          innerType |-> "AuthorSchema", description |-> Undefined]
    [] s = "PostSchema" ->
         [typeName |-> "ZodObject", shape |-> PostShape, type |-> Undefined,
          innerType |-> Undefined, description |-> Undefined]
    [] s = "WriterSchema" ->
         [typeName |-> "ZodObject",
          shape |-> << [name |-> "name", schema |-> "zString.optional()"],
                       [name |-> "id", schema |-> "zString"] >>,
          type |-> Undefined, innerType |-> Undefined,
          description |-> Undefined]
    [] s = "WriterNullable" ->
         [typeName |-> "ZodNullable", shape |-> << >>, type |-> Undefined,
          innerType |-> "WriterSchema", description |-> Undefined]
    [] s = "BlogSchema" ->
         [typeName |-> "ZodObject",
          shape |-> << [name |-> "posts",
                        schema |-> "PostSchema.array().optional().nullable().default()"] >>,
          type |-> Undefined, innerType |-> Undefined,
          description |-> Undefined]
    [] s = "AccountSchema" ->
         [typeName |-> "ZodObject",
          shape |-> << [name |-> "id", schema |-> "zNumber"],
                       [name |-> "name", schema |-> "zString.optional()"],
                       [name |-> "active", schema |-> "zBoolean.default()"] >>,
          type |-> Undefined, innerType |-> Undefined,
          description |-> Undefined]
    [] s = "ProfileSchema" ->
         [typeName |-> "ZodObject", shape |-> ProfileShape, type |-> Undefined,
          innerType |-> Undefined, description |-> Undefined]

\* The methods a zod 3 schema of a given class has.  Every ZodType has
\* optional, nullable, array, default, refine, superRefine, transform and
\* brand; partial, pick, omit, extend and merge are ZodObject's; preprocess is
\* a function of the z namespace and no method of any schema.
ZodTypeMethods ==
  {"optional", "nullable", "array", "default", "refine", "superRefine",
   "transform", "brand"}

ZodObjectMethods == {"partial", "pick", "omit", "extend", "merge"}

ZodHas(typeName, op) ==
  \/ op \in ZodTypeMethods
  \/ op \in ZodObjectMethods /\ typeName = "ZodObject"

\* mask[key] for the array handed to pick/omit as its mask: an array has its
\* indices and length as properties, never its elements.
MaskHas(keys, key) ==
  \/ \E i \in 1..Len(keys) : key = ToString(i - 1)
  \/ key = "length" /\ Len(keys) > 0

\* The entries of a shape whose names are in keep, in order.
RECURSIVE SelectEntries(_, _)
SelectEntries(shape, keep) ==
  IF shape = << >> THEN << >>
  ELSE IF Head(shape).name \in keep
    THEN << Head(shape) >> \o SelectEntries(Tail(shape), keep)
    ELSE SelectEntries(Tail(shape), keep)

\* { ...a, ...b }: a's keys keep their place and take b's value when b has
\* the key; b's other keys follow.
Spread(a, b) ==
  LET over(e) == IF e.name \in Keys(b)
                   THEN CHOOSE x \in {b[j] : j \in 1..Len(b)} : x.name = e.name
                   ELSE e
  IN  [i \in 1..Len(a) |-> over(a[i])]
      \o SelectEntries(b, Keys(b) \ Keys(a))

\* _def of a schema, given the instances built by method calls so far.
DefIn(instances, s) ==
  IF s \in DOMAIN instances THEN instances[s] ELSE BaseDef(s)

\* _def of the instance a zod method returns.
ZodApply(instances, s, call) ==
  LET d == DefIn(instances, s)
      op == call.op
  IN  CASE op = "optional" ->
             [Leaf("ZodOptional") EXCEPT !.innerType = s,
                                         !.description = d.description]
        [] op = "nullable" ->
             [Leaf("ZodNullable") EXCEPT !.innerType = s,
                                         !.description = d.description]
        [] op = "default" ->
             [Leaf("ZodDefault") EXCEPT !.innerType = s,
                                        !.description = d.description]
        [] op = "array" -> [Leaf("ZodArray") EXCEPT !.type = s]
        [] op \in {"refine", "superRefine", "transform"} -> Leaf("ZodEffects")
        [] op = "brand" ->
             [Leaf("ZodBranded") EXCEPT !.type = s,
                                        !.description = d.description]
        [] op = "partial" ->
             [d EXCEPT !.shape =
                [i \in 1..Len(d.shape) |->
                   [name |-> d.shape[i].name,
                    schema |-> Derive(d.shape[i].schema,
                                      ZodCall("optional", ""))]]]
        [] op = "pick" ->
             LET keys == CHOOSE k \in KeyLists : Join(k) = call.arg
             IN  [d EXCEPT !.shape =
                    SelectEntries(d.shape,
                                  {ToString(i - 1) : i \in 1..Len(keys)})]
        [] op = "omit" ->
             LET keys == CHOOSE k \in KeyLists : Join(k) = call.arg
             IN  [d EXCEPT !.shape =
                    SelectEntries(d.shape,
                                  {n \in Keys(d.shape) : ~MaskHas(keys, n)})]
        [] op = "extend" ->
             [d EXCEPT !.shape = Spread(d.shape, Augmentation(call.arg))]
        [] op = "merge" ->
             [d EXCEPT !.shape = Spread(d.shape,
                                        DefIn(instances, call.arg).shape),
                       !.description = Undefined]

\* The instances after one more: m with key k bound to v.
Bind(m, k, v) == [x \in DOMAIN m \cup {k} |-> IF x = k THEN v ELSE m[x]]

\* The instances after s.partial() built fieldSchema.optional() for the
\* fields from the i-th on.
RECURSIVE PartialFields(_, _, _)
PartialFields(instances, shape, i) ==
  IF i > Len(shape) THEN instances
  ELSE PartialFields(Bind(instances,
                          Derive(shape[i].schema, ZodCall("optional", "")),
                          ZodApply(instances, shape[i].schema,
                                   ZodCall("optional", ""))),
                     shape, i + 1)

\* The instances after a method call on schema s: the instance returned and,
\* for partial(), the optional() of every field.
Build(instances, s, call) ==
  LET fields == IF call.op = "partial"
                  THEN PartialFields(instances, DefIn(instances, s).shape, 1)
                  ELSE instances
  IN  Bind(fields, Derive(s, call), ZodApply(fields, s, call))

\* The method calls user code makes while its modules load, in order.
LoadedCalls ==
  << [on |-> "zString", call |-> ZodCall("optional", "")],
     [on |-> "zNumber", call |-> ZodCall("nullable", "")],
     [on |-> "zBoolean", call |-> ZodCall("default", "")],
     [on |-> "zString.optional()", call |-> ZodCall("array", "")],
     [on |-> "zDate", call |-> ZodCall("array", "")],
     [on |-> "zDate.array()", call |-> ZodCall("array", "")],
     [on |-> "zBigInt", call |-> ZodCall("array", "")],
     [on |-> "zNumber", call |-> ZodCall("optional", "")],
     [on |-> "zNumber.optional()", call |-> ZodCall("nullable", "")],
     [on |-> "zString", call |-> ZodCall("refine", "f")],
     [on |-> "AuthorArray", call |-> ZodCall("optional", "")],
     [on |-> "zRole", call |-> ZodCall("default", "")],
     [on |-> "PostSchema", call |-> ZodCall("array", "")],
     [on |-> "PostSchema.array()", call |-> ZodCall("optional", "")],
     [on |-> "PostSchema.array().optional()",
      call |-> ZodCall("nullable", "")],
     [on |-> "PostSchema.array().optional().nullable()",
      call |-> ZodCall("default", "")] >>

RECURSIVE Load(_, _)
Load(instances, i) ==
  IF i > Len(LoadedCalls) THEN instances
  ELSE Load(Build(instances, LoadedCalls[i].on, LoadedCalls[i].call), i + 1)

\* Schemas handed to a decorator as its first argument.
DecoratorSchemas == {"AuthorSchema", "PostSchema"}

\* The static members a class has from its declaration: a class that extends
\* createZodDto(S) inherits isZodDto = true and schema = S.
DeclaredStatics(cls) ==
  IF cls = "AuthorDto"
    THEN [isZodDto |-> TRUE, schema |-> "AuthorSchema"]
    ELSE [isZodDto |-> FALSE, schema |-> Undefined]

\* The environment of one call: whether require('@nestjs/graphql') succeeds,
\* which host call of the operation throws (0: none) and whether
\* process.env.DISABLE_GRAPHQL is set.
HostOk == [host |-> "ok", failAt |-> 0, disableGraphQL |-> FALSE]

HostAbsent == [host |-> "absent", failAt |-> 0, disableGraphQL |-> FALSE]

Envs ==
  {HostOk, HostAbsent}
  \cup [host : {"ok"}, failAt : 1..MaxFailAt, disableGraphQL : {FALSE}]
  \cup [host : {"ok"}, failAt : {0}, disableGraphQL : {TRUE}]

\* An option that is false whatever the context.
JsFalse(b) == "false"

\* A JavaScript boolean as the value of an option that may also be missing.
JsBoolean(b) == IF b THEN "true" ELSE "false"

\* The GraphQL types a field can resolve to: list nesting depth and the
\* scalar constructor or class underneath.
Scalar(name) == [list |-> 0, of |-> name]

\* An array mapped to the type of its element.
ElementType(t) == t

ListOf(t) == [list |-> t.list + 1, of |-> t.of]

(* ------------------------------------------------------------------ *)
(* State                                                               *)
(* ------------------------------------------------------------------ *)

VARIABLES
  schemaToClassMap,          \* WeakMap schema -> class
  classToSchemaMap,          \* WeakMap class -> schema
  dtoClassRegistry,          \* Set of decorated classes, in insertion order
  pendingDtoRegistrations,   \* Map class -> schema, in insertion order
  fieldResolutionScheduled,  \* the coalescing flag
  nextTickQueue,             \* drain callbacks handed to process.nextTick
  resolutionStats,           \* the counters carried from call to call
  classStatics,              \* static members isZodDto / schema of each class
  last,                      \* the call that ran last
  probe,                     \* inputs and results of the last observed call
  dtos,                      \* the DTO classes a caller holds, oldest first
  zodInstances,              \* _def of the schemas built by method calls
  enumRegistry,              \* the enum cache: value set -> synthesized enum
  enumsMade,                 \* number of enum objects built so far
  registerEnumTypeCalls,     \* the calls of registerEnumType since the last clear
  enumsReturned,             \* the enums callers were given since the last clear
  callStack                  \* the frames of the running call, outermost first

\* _def of a schema.
Def(s) == DefIn(zodInstances, s)

(* ------------------------------------------------------------------ *)
(* Pure helpers                                                        *)
(* ------------------------------------------------------------------ *)

\* isFieldNullable that also looks at the element of an array.
isFieldNullableThroughArray(fieldSchema) ==
  LET modifiers == {"ZodOptional", "ZodNullable", "ZodDefault"}
  IN  \/ Def(fieldSchema).typeName \in modifiers
      \/ /\ Def(fieldSchema).typeName = "ZodArray"
         /\ Def(Def(fieldSchema).type).typeName \in modifiers

\* isFieldNullable: only the outermost node is inspected.
isFieldNullable(fieldSchema) ==
  Def(fieldSchema).typeName \in {"ZodOptional", "ZodNullable", "ZodDefault"}

\* const unwrap = (s) => s._def.innerType || s
unwrap(s) == IF Def(s).innerType # Undefined THEN Def(s).innerType ELSE s

\* schemasAreEquivalent that compares the key lists as they are declared.
schemasAreEquivalentInOrder(schema1, schema2) ==
  IF unwrap(schema1) = unwrap(schema2) THEN TRUE
  ELSE IF /\ Def(unwrap(schema1)).typeName = "ZodObject"
          /\ Def(unwrap(schema2)).typeName = "ZodObject"
    THEN [i \in 1..Len(Def(unwrap(schema1)).shape) |->
            Def(unwrap(schema1)).shape[i].name]
         = [i \in 1..Len(Def(unwrap(schema2)).shape) |->
              Def(unwrap(schema2)).shape[i].name]
    ELSE FALSE

\* schemasAreEquivalent: identity after unwrapping one layer, or two
\* ZodObjects whose sorted key lists serialise to the same JSON text, which
\* for the duplicate-free keys of an object is equality of the key sets.
schemasAreEquivalent(schema1, schema2) ==
  LET s1 == unwrap(schema1)
      s2 == unwrap(schema2)
  IN  IF s1 = s2 THEN TRUE
      ELSE IF Def(s1).typeName = "ZodObject" /\ Def(s2).typeName = "ZodObject"
        THEN Keys(Def(s1).shape) = Keys(Def(s2).shape)
        ELSE FALSE

\* discoverDtoFileFromUsage: require.resolve of './src/**/<name>.dto' and the
\* like.  require does not expand globs and discoveredDtoFiles is only filled
\* after a successful require, so every candidate fails and the result is false.
discoverDtoFileFromUsage(dtoClassName) == FALSE

\* The class object createZodDto builds as the n-th class of the running
\* call; a class built by an earlier call is held by no variable.
NewClass(n) == "ZodDto#" \o ToString(n)

\* The largest reading of the millisecond clock.
MaxClock == 2

\* The readings Date.now() gives to the n classes synthesized in one
\* synchronous call, in the order they are made: the clock never goes back
\* and may or may not advance between two readings.
ClockReadings(n) ==
  {clock \in [1..n -> 0..MaxClock] :
     \A i \in 1..n, j \in 1..n : i <= j => clock[i] <= clock[j]}

\* The name getOrCreateDtoClass gives the class it synthesizes, which
\* createZodDto passes on to the host as the name of the type.
AutoGeneratedName(now) == "AutoGenerated_" \o ToString(now)

\* The synthesized classes registered as types by the host calls of one call,
\* each with the name it was registered under.
RegisteredNames(calls, clock) ==
  {[cls |-> NewClass(n), name |-> AutoGeneratedName(clock[n])] :
     n \in {m \in DOMAIN clock :
              \E k \in 1..Len(calls) :
                calls[k].op # "Field" /\ calls[k].cls = NewClass(m)}}

(* ------------------------------------------------------------------ *)
(* The state threaded through one synchronous call                     *)
(* ------------------------------------------------------------------ *)

\* One invocation on the GraphQL host: the decorator factory is called and the
\* decorator it returns is applied.  When the environment makes this the
\* failing call it throws and nothing is recorded; otherwise the call is
\* appended to the calls that took effect.
HostCall(st, env, call) ==
  IF st.err THEN st
  ELSE IF env.failAt = st.attempts + 1
    THEN [st EXCEPT !.err = TRUE, !.attempts = @ + 1]
    ELSE [st EXCEPT !.calls = Append(@, call), !.attempts = @ + 1]

\* ObjectType(name, options)(cls) / InputType(name, options)(cls)
TypeCall(isInput, cls) ==
  [op |-> IF isInput THEN "InputType" ELSE "ObjectType", cls |-> cls,
   field |-> Undefined, type |-> Scalar(Undefined), nullable |-> FALSE]

\* Field(() => fieldType, {nullable})(cls.prototype, fieldName)
FieldCall(cls, fieldName, fieldType, nullable) ==
  [op |-> "Field", cls |-> cls, field |-> fieldName, type |-> fieldType,
   nullable |-> nullable]

\* Index of the last entry of the pending Map among the indices in hits, or 0.
LastPending(hits) ==
  IF hits = {} THEN 0
  ELSE CHOOSE i \in hits : \A j \in hits : j <= i

\* Index of the first entry of the pending Map (insertion order) among the
\* indices in hits, or 0 when there is none.
FirstPending(hits) ==
  IF hits = {} THEN 0
  ELSE CHOOSE i \in hits : \A j \in hits : i <= j

RECURSIVE getGraphQLFieldType(_, _, _, _, _)
RECURSIVE getOrCreateDtoClass(_, _, _, _, _)
RECURSIVE createZodDto(_, _, _, _, _)
RECURSIVE FieldStep(_, _, _, _, _, _)
RECURSIVE FieldLoop(_, _, _, _, _, _, _)

\* getGraphQLFieldType(fieldSchema, isInputContext): the resulting state and
\* the GraphQL type.  An exception raised below leaves err set and the value
\* unused.
getGraphQLFieldType(st, env, pend, fieldSchema, isInputContext) ==
  LET typeName == Def(fieldSchema).typeName
  IN  CASE typeName = "ZodString" -> [st |-> st, val |-> Scalar("String")]
        [] typeName = "ZodNumber" -> [st |-> st, val |-> Scalar("Number")]
        [] typeName = "ZodBoolean" -> [st |-> st, val |-> Scalar("Boolean")]
        [] typeName = "ZodDate" -> [st |-> st, val |-> Scalar("Date")]
        [] typeName = "ZodArray" ->
             LET item == getGraphQLFieldType(st, env, pend,
                                             Def(fieldSchema).type,
                                             isInputContext)
             IN  [st |-> item.st, val |-> ListOf(item.val)]
        [] typeName = "ZodObject" ->
             getOrCreateDtoClass(st, env, pend, fieldSchema, isInputContext)
        [] typeName \in {"ZodOptional", "ZodNullable", "ZodDefault"} ->
             getGraphQLFieldType(st, env, pend,
                                 IF Def(fieldSchema).innerType # Undefined
                                   THEN Def(fieldSchema).innerType
                                   ELSE Def(fieldSchema).type,
                                 isInputContext)
        [] typeName = "ZodEnum" -> [st |-> st, val |-> Scalar("String")]
        [] OTHER -> [st |-> st, val |-> Scalar("String")]

\* getOrCreateDtoClass(schema, isInputContext)
getOrCreateDtoClass(st, env, pend, schema, isInputContext) ==
  LET i2 == FirstPending({i \in 1..Len(pend) : pend[i].schema = schema})
      i3 == FirstPending({i \in 1..Len(pend) :
                            schemasAreEquivalent(schema, pend[i].schema)})
  IN  IF st.s2c[schema] # Undefined
        THEN \* 1. direct lookup
             [st |-> [st EXCEPT !.stats.directHits = @ + 1],
              val |-> Scalar(st.s2c[schema])]
      ELSE IF i2 # 0
        THEN \* 2. the same schema instance is pending: register it now
             [st |-> [st EXCEPT !.stats.pendingMatches = @ + 1,
                                !.s2c[schema] = pend[i2].cls,
                                !.c2s[pend[i2].cls] = schema],
              val |-> Scalar(pend[i2].cls)]
      ELSE IF i3 # 0
        THEN \* 3. an equivalent schema is pending: only schema -> class is set
             [st |-> [st EXCEPT !.stats.equivalentMatches = @ + 1,
                                !.s2c[schema] = pend[i3].cls],
              val |-> Scalar(pend[i3].cls)]
      ELSE IF /\ Def(schema).description # Undefined
              /\ discoverDtoFileFromUsage(Def(schema).description)
              /\ st.s2c[schema] # Undefined
        THEN \* 4. auto-discovery found a file that registered the schema
             [st |-> st, val |-> Scalar(st.s2c[schema])]
      ELSE \* 5. auto-generate; the result is returned, not registered
           createZodDto([st EXCEPT !.stats.autoGenerated = @ + 1], env, pend,
                        schema,
                        [graphql |-> TRUE, gqlName |-> Undefined,
                         isInput |-> JsBoolean(isInputContext),
                         autoFields |-> TRUE])

\* FieldStep with a slip: fields that resolve to a class get no Field call.
FieldStepScalarsOnly(st, env, pend, cls, entry, isInput) ==
  LET r == getGraphQLFieldType(st, env, pend, entry.schema, isInput)
  IN  IF r.val.of \in {"String", "Number", "Boolean", "Date"}
        THEN HostCall(r.st, env,
                      FieldCall(cls, entry.name, r.val,
                                isFieldNullable(entry.schema)))
        ELSE r.st

\* The body of the loop over Object.entries(shape) that the decorators and
\* createZodDto share: resolve the type, then apply Field with the nullable
\* flag (the resolved type is never falsy, so no field is skipped).
FieldStep(st, env, pend, cls, entry, isInput) ==
  LET r == getGraphQLFieldType(st, env, pend, entry.schema, isInput)
  IN  HostCall(r.st, env,
               FieldCall(cls, entry.name, r.val,
                         isFieldNullable(entry.schema)))

\* for (const [fieldName, fieldSchema] of Object.entries(shape)); an
\* exception leaves the loop.
FieldLoop(st, env, pend, cls, shape, i, isInput) ==
  IF i > Len(shape) \/ st.err THEN st
  ELSE FieldLoop(FieldStep(st, env, pend, cls, shape[i], isInput), env, pend,
                 cls, shape, i + 1, isInput)

\* The name-based detection of an input type.
nameImpliesInput(name) ==
  \/ includes(toLowerCase(name), "input")
  \/ includes(toLowerCase(name), "create")
  \/ includes(toLowerCase(name), "update")

\* isInputType under a usable host: options.graphql.isInput === true, else
\* the name when there is one.
isInputTypeOf(graphql) ==
  IF graphql.isInput = "true" THEN TRUE
  ELSE IF graphql.gqlName \notin {Undefined, ""}
    THEN nameImpliesInput(graphql.gqlName)
    ELSE FALSE

\* The name createZodDto registers the type under: options.graphql.name, or
\* the class name, which without options.name is that same name or 'ZodDto'.
graphqlName(options) ==
  IF options.gqlName \notin {Undefined, ""} THEN options.gqlName ELSE "ZodDto"

\* createZodDto(schema, options): builds a new class; with graphql options, a
\* loadable host and DISABLE_GRAPHQL unset it registers the type and then the
\* fields.  Neither map is touched.  options.graphql tells whether the graphql
\* options are given; gqlName, isInput and autoFields are their members.
createZodDto(st, env, pend, schema, options) ==
  LET hasGraphQL == options.graphql /\ ~env.disableGraphQL /\ env.host = "ok"
      isInputType == hasGraphQL /\ isInputTypeOf(options)
      cls == NewClass(st.made + 1)
      st0 == [st EXCEPT !.made = @ + 1]
      st1 == HostCall(st0, env, TypeCall(isInputType, cls))
      st2 == IF options.autoFields /\ Def(schema).typeName = "ZodObject"
               THEN FieldLoop(st1, env, pend, cls, Def(schema).shape, 1,
                              isInputType)
               ELSE st1
  IN  [st |-> IF hasGraphQL THEN st2 ELSE st0, val |-> Scalar(cls)]

(* ------------------------------------------------------------------ *)
(* Initial state                                                       *)
(* ------------------------------------------------------------------ *)

vars ==
  << schemaToClassMap, classToSchemaMap, dtoClassRegistry,
     pendingDtoRegistrations, fieldResolutionScheduled, nextTickQueue,
     resolutionStats, classStatics, last, probe, dtos, zodInstances,
     enumRegistry, enumsMade, registerEnumTypeCalls, enumsReturned,
     callStack >>

registryVars ==
  << schemaToClassMap, classToSchemaMap, dtoClassRegistry,
     pendingDtoRegistrations, fieldResolutionScheduled, nextTickQueue,
     resolutionStats, classStatics >>

enumVars ==
  << enumRegistry, enumsMade, registerEnumTypeCalls, enumsReturned >>

\* resolutionStats after module load and after resetDtoResolutionStats.  The
\* state carries pendingMatches from call to call; directHits,
\* equivalentMatches and autoGenerated are only ever incremented and no code
\* path reads them, so they are counted within each call.
ZeroStats == [pendingMatches |-> 0]

\* What is remembered of the last call: the operation and whether it threw to
\* its caller.
Last(op, threw) == [op |-> op, threw |-> threw]

\* What a caller observes of a call: its inputs, the host calls that took
\* effect, whether it threw and what it returned.
Probe(op, input, calls, threw, val) ==
  [op |-> op, input |-> input, calls |-> calls, threw |-> threw, val |-> val]

NoProbe == Probe("none", << >>, << >>, FALSE, Scalar(Undefined))

Init ==
  /\ schemaToClassMap = [s \in SchemaIds |-> Undefined]
  /\ classToSchemaMap = [c \in UserClasses |-> Undefined]
  /\ dtoClassRegistry = << >>
  /\ pendingDtoRegistrations = << >>
  /\ fieldResolutionScheduled = FALSE
  /\ nextTickQueue = 0
  /\ resolutionStats = ZeroStats
  /\ classStatics = [c \in UserClasses |-> DeclaredStatics(c)]
  /\ last = Last("init", FALSE)
  /\ probe = NoProbe
  /\ dtos = << >>
  /\ zodInstances = Load(<< >>, 1)
  /\ enumRegistry = << >>
  /\ enumsMade = 0
  /\ registerEnumTypeCalls = << >>
  /\ enumsReturned = {}
  /\ callStack = << >>

\* The threaded state at the start of a call made when the maps and the
\* counters are as given.
StateOf(s2c, c2s, stats) ==
  [s2c |-> s2c, c2s |-> c2s,
   stats |-> [directHits |-> 0, pendingMatches |-> stats.pendingMatches,
              equivalentMatches |-> 0, autoGenerated |-> 0],
   calls |-> << >>, made |-> 0, err |-> FALSE, attempts |-> 0]

Enter == StateOf(schemaToClassMap, classToSchemaMap, resolutionStats)

(* ------------------------------------------------------------------ *)
(* Registry primitives                                                 *)
(* ------------------------------------------------------------------ *)

\* pendingDtoRegistrations.set(cls, schema): a present key keeps its place.
PendingSet(pend, cls, schema) ==
  IF \E i \in 1..Len(pend) : pend[i].cls = cls
    THEN [i \in 1..Len(pend) |->
            IF pend[i].cls = cls THEN [cls |-> cls, schema |-> schema]
            ELSE pend[i]]
    ELSE Append(pend, [cls |-> cls, schema |-> schema])

\* dtoClassRegistry.add(cls): a Set keeps the first insertion.
SetAdd(set, cls) ==
  IF \E i \in 1..Len(set) : set[i] = cls THEN set ELSE Append(set, cls)

\* scheduleFieldResolution with a slip: the callback is queued but the flag
\* is not set.
scheduleWithoutFlag(flag, queue) ==
  IF flag THEN [flag |-> flag, queue |-> queue]
  ELSE [flag |-> FALSE, queue |-> queue + 1]

\* scheduleFieldResolution with a slip: the flag is set but never consulted.
scheduleWithoutFlagCheck(flag, queue) == [flag |-> TRUE, queue |-> queue + 1]

\* scheduleFieldResolution: at most one callback per burst.
scheduleFieldResolution(flag, queue) ==
  IF flag THEN [flag |-> flag, queue |-> queue]
  ELSE [flag |-> TRUE, queue |-> queue + 1]

\* DrainEntry with the guard of preRegisterAllDtos: a mapped schema is kept.
DrainEntryIfAbsent(m, e) ==
  IF m.s2c[e.schema] = Undefined
    THEN [s2c |-> [m.s2c EXCEPT ![e.schema] = e.cls],
          c2s |-> [m.c2s EXCEPT ![e.cls] = e.schema]]
    ELSE m

\* One write of the nextTick loop: the pair goes into both maps, whatever
\* they hold.
DrainEntry(m, e) ==
  [s2c |-> [m.s2c EXCEPT ![e.schema] = e.cls],
   c2s |-> [m.c2s EXCEPT ![e.cls] = e.schema]]

\* The loop of the nextTick callback over the pending pairs, in insertion order.
RECURSIVE DrainLoop(_, _, _)
DrainLoop(pend, i, m) ==
  IF i > Len(pend) THEN m
  ELSE DrainLoop(pend, i + 1, DrainEntry(m, pend[i]))

\* One step of preRegisterAllDtos: a pair is written only when the schema has
\* no class yet.
PreRegisterEntry(m, e) ==
  IF m.s2c[e.schema] = Undefined
    THEN [s2c |-> [m.s2c EXCEPT ![e.schema] = e.cls],
          c2s |-> [m.c2s EXCEPT ![e.cls] = e.schema]]
    ELSE m

RECURSIVE PreRegisterLoop(_, _, _)
PreRegisterLoop(pend, i, m) ==
  IF i > Len(pend) THEN m
  ELSE PreRegisterLoop(pend, i + 1, PreRegisterEntry(m, pend[i]))

\* SetMapping with a slip: only the class -> schema entry is written.
SetMappingClassOnly(m, cls, schema) ==
  [s2c |-> m.s2c, c2s |-> [m.c2s EXCEPT ![cls] = schema]]

\* SetMapping that first deletes the schema key the class had.
SetMappingEvicting(m, cls, schema) ==
  [s2c |-> [s \in DOMAIN m.s2c |->
              IF s = schema THEN cls
              ELSE IF m.s2c[s] = cls THEN Undefined ELSE m.s2c[s]],
   c2s |-> [m.c2s EXCEPT ![cls] = schema]]

\* The immediate mapping at the end of a decorator, and registerDtoMapping.
SetMapping(m, cls, schema) ==
  [s2c |-> [m.s2c EXCEPT ![schema] = cls],
   c2s |-> [m.c2s EXCEPT ![cls] = schema]]

\* isZodDto(metatype)
isZodDto(statics, metatype) ==
  metatype \in DOMAIN statics /\ statics[metatype].isZodDto

\* getSchemaFromDto(dto)
getSchemaFromDto(statics, c2s, dto) ==
  IF isZodDto(statics, dto) THEN statics[dto].schema ELSE c2s[dto]

\* getDtoFromSchema(schema)
getDtoFromSchema(s2c, schema) == s2c[schema]

(* ------------------------------------------------------------------ *)
(* Operations, as functions of the current state and their inputs      *)
(* ------------------------------------------------------------------ *)

\* The whole state a call leaves behind, with what it did on the host
\* (calls), whether the host served it (hostOk), whether it threw to its
\* caller (threw) and what it returned (result).  No operation assigns a
\* static member of a declared class.
Outcome(m, registry, pend, sched, st, hostOk, threw, result) ==
  [s2c |-> m.s2c, c2s |-> m.c2s, registry |-> registry, pend |-> pend,
   flag |-> sched.flag, queue |-> sched.queue, statics |-> classStatics,
   stats |-> [pendingMatches |-> st.stats.pendingMatches],
   counted |-> st.stats, made |-> st.made, calls |-> st.calls,
   hostOk |-> hostOk, threw |-> threw, result |-> result]

Maps == [s2c |-> schemaToClassMap, c2s |-> classToSchemaMap]

Sched == [flag |-> fieldResolutionScheduled, queue |-> nextTickQueue]

\* The schema a decorator works with: its first argument when that is a
\* schema, otherwise constructor.schema and its fallbacks.
ResolveSchema(statics, cls, schemaOrName) ==
  IF schemaOrName # Undefined THEN schemaOrName ELSE statics[cls].schema

\* TryBlock with a slip: the type decorator is applied only when a schema
\* was found.
TryBlockTypeNeedsSchema(st, env, pend, cls, schema, isInput) ==
  IF env.host = "absent" THEN [st EXCEPT !.err = TRUE]
  ELSE IF schema # Undefined /\ Def(schema).typeName = "ZodObject"
    THEN FieldLoop(HostCall(st, env, TypeCall(isInput, cls)), env, pend, cls,
                   Def(schema).shape, 1, isInput)
    ELSE st

\* TryBlock in the other order: the field loop, then the type decorator.
TryBlockFieldsFirst(st, env, pend, cls, schema, isInput) ==
  IF env.host = "absent" THEN [st EXCEPT !.err = TRUE]
  ELSE HostCall(IF schema # Undefined /\ Def(schema).typeName = "ZodObject"
                  THEN FieldLoop(st, env, pend, cls, Def(schema).shape, 1,
                                 isInput)
                  ELSE st,
                env, TypeCall(isInput, cls))

\* The try block of a decorator: require the host, apply the type decorator,
\* then the field loop for a ZodObject schema.
TryBlock(st, env, pend, cls, schema, isInput) ==
  IF env.host = "absent" THEN [st EXCEPT !.err = TRUE]
  ELSE LET typed == HostCall(st, env, TypeCall(isInput, cls))
       IN  IF schema # Undefined /\ Def(schema).typeName = "ZodObject"
             THEN FieldLoop(typed, env, pend, cls, Def(schema).shape, 1,
                            isInput)
             ELSE typed

\* Catch with a slip: the exception is logged and thrown again.
Rethrow(st) == st

\* catch (error) { console.warn(...) }: the exception ends here.
Catch(st) == [st EXCEPT !.err = FALSE]

\* ZodObjectType(schemaOrName)(cls) when isInput is FALSE and
\* ZodInputType(schemaOrName)(cls) when it is TRUE.
Decorate(cls, schemaOrName, isInput, env) ==
  LET schema == ResolveSchema(classStatics, cls, schemaOrName)
      tried == TryBlock(Enter, env, pendingDtoRegistrations, cls, schema,
                        isInput)
      st == Catch(tried)
      registers == schema # Undefined /\ ~st.err
  IN  Outcome(IF registers
                THEN SetMapping([s2c |-> st.s2c, c2s |-> st.c2s], cls, schema)
                ELSE [s2c |-> st.s2c, c2s |-> st.c2s],
              IF registers THEN SetAdd(dtoClassRegistry, cls)
              ELSE dtoClassRegistry,
              IF registers
                THEN PendingSet(pendingDtoRegistrations, cls, schema)
                ELSE pendingDtoRegistrations,
              IF registers
                THEN scheduleFieldResolution(fieldResolutionScheduled,
                                             nextTickQueue)
                ELSE Sched,
              st, ~tried.err, st.err, Scalar(cls))

\* DrainCallback that registers the fields of the first pending class again.
DrainCallbackRevisiting ==
  Outcome(DrainLoop(pendingDtoRegistrations, 1, Maps), dtoClassRegistry,
          << >>, [flag |-> FALSE, queue |-> nextTickQueue - 1],
          IF /\ pendingDtoRegistrations # << >>
             /\ Def(pendingDtoRegistrations[1].schema).typeName = "ZodObject"
            THEN FieldLoop(Enter, HostOk, << >>,
                           pendingDtoRegistrations[1].cls,
                           Def(pendingDtoRegistrations[1].schema).shape, 1,
                           FALSE)
            ELSE Enter,
          TRUE, FALSE, Scalar(Undefined))

\* DrainCallback with a slip: pendingDtoRegistrations.clear() is missing.
DrainCallbackWithoutClear ==
  Outcome(DrainLoop(pendingDtoRegistrations, 1, Maps), dtoClassRegistry,
          pendingDtoRegistrations,
          [flag |-> FALSE, queue |-> nextTickQueue - 1],
          Enter, TRUE, FALSE, Scalar(Undefined))

\* The callback scheduleFieldResolution handed to process.nextTick.
DrainCallback ==
  Outcome(DrainLoop(pendingDtoRegistrations, 1, Maps), dtoClassRegistry,
          << >>, [flag |-> FALSE, queue |-> nextTickQueue - 1],
          Enter, TRUE, FALSE, Scalar(Undefined))

\* preRegisterAllDtos()
preRegisterAllDtos ==
  IF Len(pendingDtoRegistrations) = 0
    THEN Outcome(Maps, dtoClassRegistry, pendingDtoRegistrations, Sched,
                 Enter, TRUE, FALSE, Scalar(Undefined))
    ELSE Outcome(PreRegisterLoop(pendingDtoRegistrations, 1, Maps),
                 dtoClassRegistry, << >>, Sched, Enter, TRUE, FALSE,
                 Scalar(Undefined))

\* triggerDelayedResolution()
triggerDelayedResolution ==
  Outcome(Maps, dtoClassRegistry, pendingDtoRegistrations,
          scheduleFieldResolution(fieldResolutionScheduled, nextTickQueue),
          Enter, TRUE, FALSE, Scalar(Undefined))

\* registerDtoMapping(dtoClass, schema)
registerDtoMapping(dtoClass, schema) ==
  Outcome(SetMapping(Maps, dtoClass, schema), dtoClassRegistry,
          pendingDtoRegistrations, Sched, Enter, TRUE, FALSE, Scalar(Undefined))

\* resetDtoResolutionStats()
resetDtoResolutionStats ==
  Outcome(Maps, dtoClassRegistry, pendingDtoRegistrations, Sched,
          [Enter EXCEPT !.stats.pendingMatches = 0], TRUE, FALSE,
          Scalar(Undefined))

\* getGraphQLFieldType that consults the registry in the object context only.
FieldTypeCallByContext(fieldSchema, isInputContext, env) ==
  LET r == getGraphQLFieldType(
             IF isInputContext
               THEN [Enter EXCEPT !.s2c = [s \in SchemaIds |-> Undefined]]
               ELSE Enter,
             env, pendingDtoRegistrations, fieldSchema, isInputContext)
  IN  Outcome([s2c |-> r.st.s2c, c2s |-> r.st.c2s], dtoClassRegistry,
              pendingDtoRegistrations, Sched, r.st,
              env.host = "ok" /\ ~r.st.err, r.st.err,
              IF r.st.err THEN Scalar(Undefined) ELSE r.val)

\* A call of getGraphQLFieldType(fieldSchema, isInputContext) from outside a
\* decorator; nothing catches what the host throws below it.
FieldTypeCall(fieldSchema, isInputContext, env) ==
  LET r == getGraphQLFieldType(Enter, env, pendingDtoRegistrations,
                               fieldSchema, isInputContext)
  IN  Outcome([s2c |-> r.st.s2c, c2s |-> r.st.c2s], dtoClassRegistry,
              pendingDtoRegistrations, Sched, r.st,
              env.host = "ok" /\ ~r.st.err, r.st.err,
              IF r.st.err THEN Scalar(Undefined) ELSE r.val)

\* A call of createZodDto(schema, options) by user code; nothing catches
\* what the host throws below it.
CreateDto(schema, options, env) ==
  LET r == createZodDto(Enter, env, pendingDtoRegistrations, schema, options)
  IN  Outcome([s2c |-> r.st.s2c, c2s |-> r.st.c2s], dtoClassRegistry,
              pendingDtoRegistrations, Sched, r.st,
              env.host = "ok" /\ ~r.st.err, r.st.err,
              IF r.st.err THEN Scalar(Undefined) ELSE r.val)

(* ------------------------------------------------------------------ *)
(* Actions                                                             *)
(* ------------------------------------------------------------------ *)

\* The step that performs a call: every variable of the registry takes the
\* value the call leaves behind.
Applies(o, op) ==
  /\ o.stats.pendingMatches <= MaxStat
  /\ o.queue <= MaxTicks
  /\ schemaToClassMap' = o.s2c
  /\ classToSchemaMap' = o.c2s
  /\ dtoClassRegistry' = o.registry
  /\ pendingDtoRegistrations' = o.pend
  /\ fieldResolutionScheduled' = o.flag
  /\ nextTickQueue' = o.queue
  /\ resolutionStats' = o.stats
  /\ last' = Last(op, o.threw)
  /\ classStatics' = o.statics

\* A call whose results no caller keeps.
Becomes(o, op) ==
  /\ Applies(o, op)
  /\ UNCHANGED << probe, dtos, zodInstances, enumVars, callStack >>

DecoratorCall ==
  \E cls \in UserClasses, schemaOrName \in DecoratorSchemas \cup {Undefined},
     isInput \in BOOLEAN, env \in Envs :
    Becomes(Decorate(cls, schemaOrName, isInput, env), "decorate")

Tick ==
  /\ nextTickQueue > 0
  /\ Becomes(DrainCallback, "tick")

PreRegisterAllDtos ==
  Becomes(preRegisterAllDtos, "preRegisterAllDtos")

TriggerDelayedResolution ==
  Becomes(triggerDelayedResolution, "triggerDelayedResolution")

RegisterDtoMapping ==
  \E dtoClass \in UserClasses, schema \in DecoratorSchemas :
    Becomes(registerDtoMapping(dtoClass, schema), "registerDtoMapping")

ResetDtoResolutionStats ==
  Becomes(resetDtoResolutionStats, "resetDtoResolutionStats")

GetGraphQLFieldTypeCall ==
  \E fieldSchema \in SchemaIds, isInputContext \in BOOLEAN, env \in Envs :
    Becomes(FieldTypeCall(fieldSchema, isInputContext, env),
            "getGraphQLFieldType")

Next ==
  \/ DecoratorCall
  \/ Tick
  \/ PreRegisterAllDtos
  \/ TriggerDelayedResolution
  \/ RegisterDtoMapping
  \/ ResetDtoResolutionStats
  \/ GetGraphQLFieldTypeCall

Spec == Init /\ [][Next]_vars

\* The schemas createZodDto is called with and the options it is given.
DtoSchemas == {"AuthorSchema", "ProfileSchema", "zString"}

NoOptions ==
  [graphql |-> FALSE, gqlName |-> Undefined, isInput |-> Undefined,
   autoFields |-> TRUE]

GraphQLNames == {"User", "UserInput", "CreatePost", "UPDATE_TAGS"}

GraphQLOptions ==
  [graphql : {TRUE}, gqlName : GraphQLNames \cup {Undefined},
   isInput : {"true", "false", Undefined}, autoFields : BOOLEAN]

\* The field schemas getGraphQLFieldType is called with.
FieldSchemas ==
  SchemaIds \cup {"zBoolean", "zDate", "zRole", "zBigInt"}
  \cup {Derive(LoadedCalls[i].on, LoadedCalls[i].call) :
          i \in 1..Len(LoadedCalls)}

\* A call whose caller observes its result, made once from the state after
\* module load.
Observed(o, op, input) ==
  /\ probe = NoProbe
  /\ Applies(o, op)
  /\ probe' = Probe(op, input, o.calls, o.threw, o.result)
  /\ UNCHANGED << dtos, zodInstances, enumVars, callStack >>

CreateZodDtoCall ==
  \E schema \in DtoSchemas, options \in GraphQLOptions \cup {NoOptions},
     env \in Envs :
    Observed(CreateDto(schema, options, env), "createZodDto",
             [schema |-> schema, options |-> options, env |-> env])

ResolveFieldType ==
  \E fieldSchema \in FieldSchemas, isInputContext \in BOOLEAN, env \in Envs :
    Observed(FieldTypeCall(fieldSchema, isInputContext, env),
             "getGraphQLFieldType",
             [schema |-> fieldSchema, isInput |-> isInputContext,
              env |-> env])

\* A JavaScript value handed to a validation method: its typeof kind, the
\* text of a primitive and the own properties of an object.
JsValue(kind, v, fields) == [kind |-> kind, v |-> v, fields |-> fields]

\* The inputs of the validation methods: undefined, a string, and the objects
\* with any of four properties holding a number, a string or a boolean.
ParseInputs ==
  LET none == [n \in {} |-> Undefined]
      atoms == {JsValue("number", "1", none), JsValue("string", "a", none),
                JsValue("boolean", "true", none)}
  IN  {JsValue("undefined", "", none), JsValue("string", "a", none)}
      \cup {JsValue("object", "", f) :
              f \in UNION {[K -> atoms] :
                             K \in SUBSET {"id", "name", "active", "extra"}}}

\* The schemas of the DTO classes whose validation methods are called.
ParseSchemas == {"AuthorSchema", "AccountSchema"}

RECURSIVE ZodParse(_, _, _)
RECURSIVE ParseFields(_, _, _, _, _)

\* schema._parse(input) at a path: the output data and the issues, one text
\* path.join('.') + ': ' + message per issue, in the order zod reports them.
\* The default of z.boolean().default(false) is false.
ZodParse(s, x, path) ==
  LET none == [n \in {} |-> Undefined]
      expected == CASE Def(s).typeName = "ZodString" -> "string"
                    [] Def(s).typeName = "ZodNumber" -> "number"
                    [] Def(s).typeName = "ZodBoolean" -> "boolean"
                    [] Def(s).typeName = "ZodObject" -> "object"
                    [] OTHER -> Undefined
      invalid ==
        [data |-> x,
         issues |-> << path \o ": " \o
                       (IF x.kind = "undefined" THEN "Required"
                        ELSE "Expected " \o expected \o ", received "
                             \o x.kind) >>]
  IN  CASE Def(s).typeName \in {"ZodString", "ZodNumber", "ZodBoolean"} ->
             IF x.kind = expected THEN [data |-> x, issues |-> << >>]
             ELSE invalid
        [] Def(s).typeName = "ZodOptional" ->
             IF x.kind = "undefined" THEN [data |-> x, issues |-> << >>]
             ELSE ZodParse(Def(s).innerType, x, path)
        [] Def(s).typeName = "ZodNullable" ->
             IF x.kind = "null" THEN [data |-> x, issues |-> << >>]
             ELSE ZodParse(Def(s).innerType, x, path)
        [] Def(s).typeName = "ZodDefault" ->
             ZodParse(Def(s).innerType,
                      IF x.kind = "undefined"
                        THEN JsValue("boolean", "false", none)
                        ELSE x,
                      path)
        [] Def(s).typeName = "ZodObject" ->
             IF x.kind # "object" THEN invalid
             ELSE ParseFields(Def(s).shape, x, path, 1,
                              [data |-> JsValue("object", "", none),
                               issues |-> << >>])

\* ZodObject._parse over the keys of the shape from the i-th on: a key is set
\* in the output when the input has it or its parsed value is not undefined;
\* the properties the shape does not name are stripped.
ParseFields(shape, x, path, i, acc) ==
  IF i > Len(shape) THEN acc
  ELSE LET name == shape[i].name
           r == ZodParse(shape[i].schema,
                         IF name \in DOMAIN x.fields THEN x.fields[name]
                         ELSE JsValue("undefined", "", [n \in {} |-> Undefined]),
                         IF path = "" THEN name ELSE path \o "." \o name)
           set == name \in DOMAIN x.fields \/ r.data.kind # "undefined"
       IN  ParseFields(shape, x, path, i + 1,
             [data |-> IF set
                         THEN [acc.data EXCEPT !.fields =
                                 [n \in DOMAIN @ \cup {name} |->
                                    IF n = name THEN r.data ELSE @[n]]]
                         ELSE acc.data,
              issues |-> acc.issues \o r.issues])

\* parse that hands back the data of a failed validation.
parseWithoutThrow(schema, input) ==
  [threw |-> FALSE, val |-> ZodParse(schema, input, "").data,
   errors |-> << >>]

\* create, parse, validate and fromPlainObject of the DTO class of a schema:
\* this.schema.parse(input), which throws a ZodError carrying the issues.
parse(schema, input) ==
  IF ZodParse(schema, input, "").issues = << >>
    THEN [threw |-> FALSE, val |-> ZodParse(schema, input, "").data,
          errors |-> << >>]
    ELSE [threw |-> TRUE, val |-> Undefined,
          errors |-> ZodParse(schema, input, "").issues]

\* strip that reports a rejected input as parse does.
stripReporting(schema, input) == parse(schema, input)

\* strip(input): the data of safeParse on success, the input itself otherwise.
strip(schema, input) ==
  IF ZodParse(schema, input, "").issues = << >>
    THEN [threw |-> FALSE, val |-> ZodParse(schema, input, "").data,
          errors |-> << >>]
    ELSE [threw |-> FALSE, val |-> input, errors |-> << >>]

\* getValidationErrors(input): the issues of safeParse as texts, [] on success.
getValidationErrors(schema, input) ==
  [threw |-> FALSE, val |-> ZodParse(schema, input, "").issues,
   errors |-> << >>]

\* A call that depends on its arguments alone and leaves the registry as it
\* is: a validation method, or a helper without side effects.
Validated(r, op, input) ==
  Observed(Outcome(Maps, dtoClassRegistry, pendingDtoRegistrations, Sched,
                   Enter, TRUE, r.threw, r),
           op, input)

ValidationCall ==
  \E schema \in ParseSchemas, input \in ParseInputs :
    \/ \E op \in {"create", "parse", "validate", "fromPlainObject"} :
         Validated(parse(schema, input), op,
                   [schema |-> schema, value |-> input])
    \/ Validated(getValidationErrors(schema, input), "getValidationErrors",
                 [schema |-> schema, value |-> input])
    \/ Validated(strip(schema, input), "strip",
                 [schema |-> schema, value |-> input])

\* The pairs of schemas schemasAreEquivalent is called with: objects with the
\* same keys in another order and with other types, objects with other keys,
\* non-objects, and all of these behind one or two wrappers.
EquivalenceSchemas ==
  {"AuthorSchema", "AuthorDescribed", "AuthorOptional", "AuthorArray",
   "AuthorArray.optional()", "WriterSchema", "WriterNullable",
   "PostSchema", "zString", "zString.optional()",
   "zNumber.optional().nullable()"}

SchemasAreEquivalentCall ==
  \E schema1 \in EquivalenceSchemas, schema2 \in EquivalenceSchemas :
    Validated([threw |-> FALSE,
               val |-> schemasAreEquivalent(schema1, schema2),
               errors |-> << >>],
              "schemasAreEquivalent",
              [schema1 |-> schema1, schema2 |-> schema2])

PureNext ==
  \/ CreateZodDtoCall
  \/ ResolveFieldType
  \/ ValidationCall
  \/ SchemasAreEquivalentCall

\* The calls that depend on their arguments alone, each made once from the
\* state after module load.
PureSpec == Init /\ [][PureNext]_vars

\* The event loop runs every callback handed to process.nextTick.
FairSpec == Spec /\ WF_vars(Tick)

(* ------------------------------------------------------------------ *)
(* One synchronous call, frame by frame                                *)
(* ------------------------------------------------------------------ *)

\* A frame of the call stack: the function, the schema it was called with,
\* how many of its calls have returned, and the class and context it works
\* for.
Frame(fn, schema, at, cls, isInput) ==
  [fn |-> fn, schema |-> schema, at |-> at, cls |-> cls, isInput |-> isInput]

NoCall == Frame("none", Undefined, 0, Undefined, FALSE)

\* Callee with a slip: for an array getGraphQLFieldType calls itself with the
\* array, not with its element.
CalleeArrayItself(f) ==
  IF f.fn \in {"decorator", "createZodDto"}
    THEN IF Def(f.schema).typeName = "ZodObject"
            /\ f.at < Len(Def(f.schema).shape)
           THEN Frame("getGraphQLFieldType",
                      Def(f.schema).shape[f.at + 1].schema, 0, f.cls,
                      f.isInput)
           ELSE NoCall
  ELSE IF f.at > 0 THEN NoCall
  ELSE IF f.fn = "getOrCreateDtoClass"
    THEN IF \/ schemaToClassMap[f.schema] # Undefined
            \/ \E i \in 1..Len(pendingDtoRegistrations) :
                 schemasAreEquivalent(f.schema,
                                      pendingDtoRegistrations[i].schema)
           THEN NoCall
           ELSE Frame("createZodDto", f.schema, 0, NewClass(1), f.isInput)
  ELSE CASE Def(f.schema).typeName = "ZodArray" ->
              Frame("getGraphQLFieldType", f.schema, 0, f.cls, f.isInput)
         [] Def(f.schema).typeName = "ZodObject" ->
              Frame("getOrCreateDtoClass", f.schema, 0, f.cls, f.isInput)
         [] Def(f.schema).typeName
              \in {"ZodOptional", "ZodNullable", "ZodDefault"} ->
              Frame("getGraphQLFieldType", Def(f.schema).innerType, 0, f.cls,
                    f.isInput)
         [] OTHER -> NoCall

\* The call the function of frame f makes next, or NoCall when it returns.
\* The field loop of a decorator and of createZodDto calls
\* getGraphQLFieldType once per field; getGraphQLFieldType calls itself for
\* the element of an array and the inner schema of a wrapper and
\* getOrCreateDtoClass for an object; getOrCreateDtoClass calls createZodDto
\* when neither the registry nor the pending queue has a class.
Callee(f) ==
  IF f.fn \in {"decorator", "createZodDto"}
    THEN IF Def(f.schema).typeName = "ZodObject"
            /\ f.at < Len(Def(f.schema).shape)
           THEN Frame("getGraphQLFieldType",
                      Def(f.schema).shape[f.at + 1].schema, 0, f.cls,
                      f.isInput)
           ELSE NoCall
  ELSE IF f.at > 0 THEN NoCall
  ELSE IF f.fn = "getOrCreateDtoClass"
    THEN IF \/ schemaToClassMap[f.schema] # Undefined
            \/ \E i \in 1..Len(pendingDtoRegistrations) :
                 schemasAreEquivalent(f.schema,
                                      pendingDtoRegistrations[i].schema)
           THEN NoCall
           ELSE Frame("createZodDto", f.schema, 0, NewClass(1), f.isInput)
  ELSE CASE Def(f.schema).typeName = "ZodArray" ->
              Frame("getGraphQLFieldType", Def(f.schema).type, 0, f.cls,
                    f.isInput)
         [] Def(f.schema).typeName = "ZodObject" ->
              Frame("getOrCreateDtoClass", f.schema, 0, f.cls, f.isInput)
         [] Def(f.schema).typeName
              \in {"ZodOptional", "ZodNullable", "ZodDefault"} ->
              Frame("getGraphQLFieldType", Def(f.schema).innerType, 0, f.cls,
                    f.isInput)
         [] OTHER -> NoCall

\* The schemas createZodDto is entered with in a frame-by-frame call.
WalkSchemas == {"BlogSchema", "PostSchema", "AuthorSchema", "zString"}

\* A decorator is applied to the class PostDto: its field loop starts.
DecoratorEnters ==
  /\ callStack = << >>
  /\ \E schema \in DecoratorSchemas \cup {"BlogSchema"}, isInput \in BOOLEAN :
       callStack' = << Frame("decorator", schema, 0, "PostDto", isInput) >>
  /\ UNCHANGED << registryVars, last, probe, dtos, zodInstances, enumVars >>

\* User code calls createZodDto with graphql options and autoFields.
CreateZodDtoEnters ==
  /\ callStack = << >>
  /\ \E schema \in WalkSchemas, isInput \in BOOLEAN :
       callStack' = << Frame("createZodDto", schema, 0, NewClass(1), isInput) >>
  /\ UNCHANGED << registryVars, last, probe, dtos, zodInstances, enumVars >>

\* The running function makes its next call.
Calls ==
  /\ callStack # << >>
  /\ Callee(callStack[Len(callStack)]) # NoCall
  /\ callStack' = Append(callStack, Callee(callStack[Len(callStack)]))
  /\ UNCHANGED << registryVars, last, probe, dtos, zodInstances, enumVars >>

\* What getOrCreateDtoClass leaves in the registry when it returns a class it
\* found: nothing after a direct hit, the pair after a pending match, the
\* schema -> class entry after an equivalence match.
Lookup(f) ==
  getOrCreateDtoClass(Enter, HostOk, pendingDtoRegistrations, f.schema,
                      f.isInput).st

\* The running function returns to its caller, which goes on after the call.
ReturnsToCaller ==
  /\ Len(callStack) > 1
  /\ Callee(callStack[Len(callStack)]) = NoCall
  /\ callStack' = [i \in 1..(Len(callStack) - 1) |->
                     IF i = Len(callStack) - 1
                       THEN [callStack[i] EXCEPT !.at = @ + 1]
                       ELSE callStack[i]]
  /\ IF /\ callStack[Len(callStack)].fn = "getOrCreateDtoClass"
        /\ callStack[Len(callStack)].at = 0
       THEN /\ Lookup(callStack[Len(callStack)]).stats.pendingMatches <= MaxStat
            /\ schemaToClassMap' = Lookup(callStack[Len(callStack)]).s2c
            /\ classToSchemaMap' = Lookup(callStack[Len(callStack)]).c2s
            /\ resolutionStats' =
                 [pendingMatches |->
                    Lookup(callStack[Len(callStack)]).stats.pendingMatches]
            /\ UNCHANGED << dtoClassRegistry, pendingDtoRegistrations,
                            fieldResolutionScheduled, nextTickQueue,
                            classStatics >>
       ELSE UNCHANGED registryVars
  /\ UNCHANGED << last, probe, dtos, zodInstances, enumVars >>

\* The outermost function is done.
Completes(o, op) ==
  /\ Applies(o, op)
  /\ callStack' = << >>
  /\ UNCHANGED << probe, dtos, zodInstances, enumVars >>

\* After its try block the decorator registers the class, enqueues it and
\* schedules the drain.
DecoratorCompletes ==
  /\ Len(callStack) = 1
  /\ callStack[1].fn = "decorator"
  /\ Callee(callStack[1]) = NoCall
  /\ Completes(Outcome(SetMapping(Maps, callStack[1].cls, callStack[1].schema),
                       SetAdd(dtoClassRegistry, callStack[1].cls),
                       PendingSet(pendingDtoRegistrations, callStack[1].cls,
                                  callStack[1].schema),
                       scheduleFieldResolution(fieldResolutionScheduled,
                                               nextTickQueue),
                       Enter, TRUE, FALSE, Scalar(callStack[1].cls)),
               "decorate")

\* createZodDto returns its class; it writes nothing to the registry.
CreateZodDtoCompletes ==
  /\ Len(callStack) = 1
  /\ callStack[1].fn = "createZodDto"
  /\ Callee(callStack[1]) = NoCall
  /\ Completes(Outcome(Maps, dtoClassRegistry, pendingDtoRegistrations, Sched,
                       Enter, TRUE, FALSE, Scalar(callStack[1].cls)),
               "createZodDto")

\* A step of the running call.
Runs ==
  \/ Calls
  \/ ReturnsToCaller
  \/ DecoratorCompletes
  \/ CreateZodDtoCompletes

WalkNext ==
  \/ DecoratorEnters
  \/ CreateZodDtoEnters
  \/ Runs

\* Calls on a usable host, followed frame by frame; a call that has begun
\* keeps running, as JavaScript runs a synchronous call to its end.
WalkSpec == Init /\ [][WalkNext]_vars /\ WF_vars(Runs)

(* ------------------------------------------------------------------ *)
(* Helpers of the properties                                           *)
(* ------------------------------------------------------------------ *)

\* The names of the Field calls made on a class, in call order.
RECURSIVE FieldNamesOn(_, _)
FieldNamesOn(calls, cls) ==
  IF calls = << >> THEN << >>
  ELSE LET c == Head(calls)
       IN  IF c.op = "Field" /\ c.cls = cls
             THEN << c.field >> \o FieldNamesOn(Tail(calls), cls)
             ELSE FieldNamesOn(Tail(calls), cls)

\* The field names of a shape, in declared order.
ShapeNames(shape) == [i \in 1..Len(shape) |-> shape[i].name]

\* The type handed to the Field call of a field of a class.
FieldTypeOn(calls, cls, fieldName) ==
  LET i == CHOOSE k \in 1..Len(calls) :
             calls[k].op = "Field" /\ calls[k].cls = cls
             /\ calls[k].field = fieldName
  IN  calls[i].type

InPending(pend, cls, schema) ==
  \E i \in 1..Len(pend) : pend[i].cls = cls /\ pend[i].schema = schema

HasField(schema, fieldSchema) ==
  /\ Def(schema).typeName = "ZodObject"
  /\ \E k \in 1..Len(Def(schema).shape) :
       Def(schema).shape[k].schema = fieldSchema

\* The classes declared without a createZodDto base.
BareClasses == {c \in UserClasses : ~DeclaredStatics(c).isZodDto}

\* The operations that register nothing by themselves.
NonRegisteringOps ==
  {"tick", "preRegisterAllDtos", "triggerDelayedResolution",
   "resetDtoResolutionStats", "getGraphQLFieldType"}

(* ------------------------------------------------------------------ *)
(* Properties                                                          *)
(* ------------------------------------------------------------------ *)

\* C1: first write wins.  Once getDtoFromSchema(S) is a class, no later step
\* (decorator, registerDtoMapping, deferred drain, preRegisterAllDtos) makes
\* it another class.
FirstWriteWins ==
  [][\A S \in SchemaIds :
       getDtoFromSchema(schemaToClassMap, S) # Undefined
         => getDtoFromSchema(schemaToClassMap', S)
              = getDtoFromSchema(schemaToClassMap, S)]_vars

\* C2: identity stability.  After class C was registered for S, no step other
\* than a registration call (drain, preRegisterAllDtos, field-type
\* resolution, trigger, stats reset) changes getDtoFromSchema(S).
IdentityStable ==
  [][last'.op \in NonRegisteringOps
       => \A S \in SchemaIds :
            getDtoFromSchema(schemaToClassMap, S) # Undefined
              => getDtoFromSchema(schemaToClassMap', S)
                   = getDtoFromSchema(schemaToClassMap, S)]_vars

\* C3: forward reference.  When the deferred drain runs with A pending before
\* B, A's schema holding a field whose schema is B's schema, and B the only
\* pending class of that schema, then after the drain getGraphQLFieldType of
\* the field schema returns B in either context, whatever the host does, and
\* no class is synthesized.
ForwardReferenceResolved ==
  [][last'.op = "tick"
       => \A i \in 1..Len(pendingDtoRegistrations),
             j \in 1..Len(pendingDtoRegistrations) :
            LET A == pendingDtoRegistrations[i]
                B == pendingDtoRegistrations[j]
            IN  ( /\ i < j
                  /\ HasField(A.schema, B.schema)
                  /\ \A k \in 1..Len(pendingDtoRegistrations) :
                       pendingDtoRegistrations[k].schema = B.schema => k = j )
                => \A ctx \in BOOLEAN, env \in Envs :
                     LET r == getGraphQLFieldType(
                                StateOf(schemaToClassMap', classToSchemaMap',
                                        resolutionStats'),
                                env, pendingDtoRegistrations', B.schema, ctx)
                     IN  ~r.st.err /\ r.val = Scalar(B.cls) /\ r.st.made = 0
     ]_vars

\* C3 witness: PostDto was decorated before AuthorDto, the deferred drain has
\* run, and both schemas map to their classes.
ForwardReferenceDrained ==
  /\ last.op = "tick"
  /\ dtoClassRegistry = << "PostDto", "AuthorDto" >>
  /\ getDtoFromSchema(schemaToClassMap, "PostSchema") = "PostDto"
  /\ getDtoFromSchema(schemaToClassMap, "AuthorSchema") = "AuthorDto"
  /\ pendingDtoRegistrations = << >>

\* C4: with the host serving every call, decorating a class with an Object
\* schema of n fields makes exactly n Field calls on that class, one per
\* field, in the declared order of the shape.
FieldsInDeclaredOrder ==
  \A cls \in UserClasses, schemaOrName \in DecoratorSchemas \cup {Undefined},
     isInput \in BOOLEAN, env \in Envs :
    LET schema == ResolveSchema(classStatics, cls, schemaOrName)
        o == Decorate(cls, schemaOrName, isInput, env)
    IN  (o.hostOk /\ schema # Undefined /\ Def(schema).typeName = "ZodObject")
          => FieldNamesOn(o.calls, cls) = ShapeNames(Def(schema).shape)

\* C4 witness: PostDto has been decorated with the three-field PostSchema, and
\* a decorator call on it with a working host registers title, author,
\* authors while synthesizing classes for the nested schema.
ThreeFieldsRegistered ==
  /\ last.op = "decorate"
  /\ classToSchemaMap["PostDto"] = "PostSchema"
  /\ LET o == Decorate("PostDto", "PostSchema", FALSE, HostOk)
     IN  /\ o.hostOk
         /\ o.made > 0
         /\ FieldNamesOn(o.calls, "PostDto") = << "title", "author", "authors" >>

EquivalentSchemaSharesClass ==
  \A C \in UserClasses :
    ( /\ getDtoFromSchema(schemaToClassMap, "AuthorSchema") = C
      /\ getDtoFromSchema(schemaToClassMap, "AuthorDescribed") = Undefined
      /\ \A i \in 1..Len(pendingDtoRegistrations) :
           pendingDtoRegistrations[i]
             = [cls |-> C, schema |-> "AuthorSchema"] )
    => \A ctx \in BOOLEAN :
         FieldTypeCall("AuthorDescribed", ctx, HostOk).result = Scalar(C)

\* C7: coalescing.  At most one drain callback is outstanding, and one is
\* outstanding exactly while fieldResolutionScheduled is set, so a burst of
\* decorator and triggerDelayedResolution calls schedules one callback and
\* the next can only be scheduled after it ran.
OneDrainOutstanding ==
  /\ nextTickQueue \in {0, 1}
  /\ fieldResolutionScheduled <=> nextTickQueue = 1

\* C7 witness: two decorator calls and a triggerDelayedResolution in one
\* burst, with one callback outstanding.
BurstSchedulesOnce ==
  /\ last.op = "triggerDelayedResolution"
  /\ Len(pendingDtoRegistrations) = 2
  /\ nextTickQueue = 1

\* C8: every enqueued (class, schema) pair is eventually removed from the
\* pending queue, and right after a drain pass (deferred callback or
\* preRegisterAllDtos) the queue is empty and every schema that was pending
\* is a key of the schema -> class map.
DrainEmptiesQueue ==
  /\ \A c \in UserClasses, S \in DecoratorSchemas :
       InPending(pendingDtoRegistrations, c, S)
         ~> ~InPending(pendingDtoRegistrations, c, S)
  /\ [][last'.op \in {"tick", "preRegisterAllDtos"}
          => /\ pendingDtoRegistrations' = << >>
             /\ \A i \in 1..Len(pendingDtoRegistrations) :
                  getDtoFromSchema(schemaToClassMap',
                                   pendingDtoRegistrations[i].schema)
                    # Undefined]_vars

\* C8 witness: both classes were decorated and the deferred drain has run.
QueueDrained ==
  /\ last.op = "tick"
  /\ Len(dtoClassRegistry) = 2
  /\ pendingDtoRegistrations = << >>
  /\ \A c \in UserClasses :
       getDtoFromSchema(schemaToClassMap, classToSchemaMap[c]) # Undefined

\* C9: whenever a drain is scheduled, running preRegisterAllDtos instead of
\* the deferred callback leaves getDtoFromSchema and getSchemaFromDto with
\* the same results for every schema and class.
DrainsInterchangeable ==
  nextTickQueue > 0
    => /\ \A S \in SchemaIds :
            getDtoFromSchema(DrainCallback.s2c, S)
              = getDtoFromSchema(preRegisterAllDtos.s2c, S)
       /\ \A c \in UserClasses :
            getSchemaFromDto(classStatics, DrainCallback.c2s, c)
              = getSchemaFromDto(classStatics, preRegisterAllDtos.c2s, c)

\* C10: auto-generation registers its result.  When resolving an Object
\* schema S synthesizes a class G, getDtoFromSchema(S) is G afterwards, and a
\* class decorated with PostSchema gets the same class for its fields author
\* (S) and authors (array of S).
AutoGeneratedIsRegistered ==
  /\ \A S \in DecoratorSchemas, ctx \in BOOLEAN :
       LET o == FieldTypeCall(S, ctx, HostOk)
       IN  o.result.of \in {NewClass(n) : n \in 1..o.made}
             => getDtoFromSchema(o.s2c, S) = o.result.of
  /\ \A cls \in UserClasses, isInput \in BOOLEAN :
       LET o == Decorate(cls, "PostSchema", isInput, HostOk)
       IN  FieldTypeOn(o.calls, cls, "authors").of
             = FieldTypeOn(o.calls, cls, "author").of

\* C11: host failure is all-or-nothing.  When the host fails at any point of
\* a decorator call with a schema (require throws, the type registration
\* throws, a Field registration throws), the decorator does not throw, no
\* type or field registration of the call has taken effect, and the pair is
\* recorded in the registry and pending.
HostFailureAllOrNothing ==
  \A cls \in UserClasses, S \in DecoratorSchemas, isInput \in BOOLEAN,
     env \in Envs :
    LET o == Decorate(cls, S, isInput, env)
    IN  ~o.hostOk
          => /\ ~o.threw
             /\ o.calls = << >>
             /\ getDtoFromSchema(o.s2c, S) = cls
             /\ getSchemaFromDto(o.statics, o.c2s, cls) = S
             /\ InPending(o.pend, cls, S)

MaxChain == 2

\* The static members of the class createZodDto(schema, options) returns,
\* with the method call that made it and the held class it was called on.
DtoClass(schema, options, via, from) ==
  [isZodDto |-> TRUE, schema |-> schema, options |-> options, via |-> via,
   from |-> from]

\* The schema-algebra methods of a DTO class.
DtoMethods ==
  {"partial", "pick", "omit", "extend", "merge", "optional", "nullable",
   "array", "refine", "superRefine", "transform", "preprocess", "brand",
   "clone"}

\* The calls user code makes on the classes it holds; merge is given a held
\* class with an object schema.
DtoCalls(held) ==
  {ZodCall(op, "") : op \in {"partial", "optional", "nullable", "array",
                             "brand", "clone"}}
  \cup {ZodCall(op, "f") : op \in {"refine", "superRefine", "transform",
                                   "preprocess"}}
  \cup {ZodCall(op, Join(keys)) : op \in {"pick", "omit"}, keys \in KeyLists}
  \cup {ZodCall("extend", a) : a \in Augmentations}
  \cup {ZodCall("merge", held[i].schema) :
          i \in {i \in 1..Len(held) :
                   Def(held[i].schema).typeName = "ZodObject"}}

\* The schemas and options of the first class.
ChainSchemas == {"AuthorSchema", "zString"}

\* The hosts of a chain: one whose decorators work, one whose first decorator
\* call throws.
ChainEnvs == {HostOk, [host |-> "ok", failAt |-> 1, disableGraphQL |-> FALSE]}

ChainOptions ==
  {NoOptions,
   [graphql |-> TRUE, gqlName |-> "User", isInput |-> Undefined,
    autoFields |-> FALSE]}

\* The schema a method hands to createZodDto when it forgets to apply the
\* operation.
ReceiverSchema(dto, call) == dto.schema

\* The schema a method hands to createZodDto: this.schema for clone, else the
\* result of the zod method of the same name.
MethodSchema(dto, call) ==
  IF call.op = "clone" THEN dto.schema ELSE Derive(dto.schema, call)

\* The call returns without a TypeError: the zod schema has the method.
HasMethod(dto, call) ==
  call.op = "clone" \/ ZodHas(Def(dto.schema).typeName, call.op)

\* A call that throws before it reaches createZodDto.
TypeError ==
  Outcome(Maps, dtoClassRegistry, pendingDtoRegistrations, Sched,
          [Enter EXCEPT !.err = TRUE], FALSE, TRUE, Scalar(Undefined))

\* A method of a DTO class: createZodDto((this.schema as any).op(args),
\* options) with the options of the class.
DtoMethod(dto, call, env) ==
  IF HasMethod(dto, call)
    THEN CreateDto(MethodSchema(dto, call), dto.options, env)
    ELSE TypeError

\* getFieldNames()
getFieldNames(dto) ==
  IF Def(dto.schema).typeName # "ZodObject" THEN << >>
  ELSE [i \in 1..Len(Def(dto.schema).shape) |-> Def(dto.schema).shape[i].name]

\* getFieldSchema(fieldName)
getFieldSchema(dto, fieldName) ==
  LET shape == Def(dto.schema).shape
      hits == {i \in 1..Len(shape) : shape[i].name = fieldName}
  IN  IF Def(dto.schema).typeName # "ZodObject" \/ hits = {} THEN Undefined
      ELSE shape[CHOOSE i \in hits : TRUE].schema

\* schema.isOptional(): whether the schema accepts undefined.
RECURSIVE AcceptsUndefined(_)
AcceptsUndefined(s) ==
  CASE Def(s).typeName \in {"ZodOptional", "ZodDefault"} -> TRUE
    [] Def(s).typeName = "ZodNullable" -> AcceptsUndefined(Def(s).innerType)
    [] Def(s).typeName = "ZodBranded" -> AcceptsUndefined(Def(s).type)
    [] OTHER -> FALSE

\* isOptional(fieldName)
isOptional(dto, fieldName) ==
  IF getFieldSchema(dto, fieldName) = Undefined THEN FALSE
  ELSE \/ Def(getFieldSchema(dto, fieldName)).typeName = "ZodOptional"
       \/ AcceptsUndefined(getFieldSchema(dto, fieldName))

\* The step of a call that returns a DTO class: the caller holds the class
\* unless the call threw, and the schema the method built exists.
Returns(o, dto, instances, input) ==
  /\ Applies(o, input.call.op)
  /\ dtos' = IF o.threw THEN dtos ELSE Append(dtos, dto)
  /\ zodInstances' = IF o.threw THEN zodInstances ELSE instances
  /\ probe' = Probe(input.call.op, input, o.calls, o.threw, o.result)
  /\ UNCHANGED << enumVars, callStack >>

FirstDto ==
  \E schema \in ChainSchemas, options \in ChainOptions, env \in ChainEnvs :
    /\ dtos = << >>
    /\ Returns(CreateDto(schema, options, env),
               DtoClass(schema, options, ZodCall("createZodDto", ""), 0),
               zodInstances,
               [call |-> ZodCall("createZodDto", ""), on |-> 0, env |-> env])

\* The caller chains: each method is called on the class it got last.
DtoMethodCall ==
  \E i \in {Len(dtos)} \ {0}, env \in ChainEnvs :
    \E call \in DtoCalls(dtos) :
      /\ Len(dtos) <= MaxChain
      /\ Returns(DtoMethod(dtos[i], call, env),
                 DtoClass(MethodSchema(dtos[i], call), dtos[i].options, call, i),
                 IF call.op = "clone" THEN zodInstances
                 ELSE Build(zodInstances, dtos[i].schema, call),
                 [call |-> call, on |-> i, env |-> env])

DtoNext ==
  \/ FirstDto
  \/ DtoMethodCall

\* A caller that builds a DTO class and derives further classes from the
\* classes it holds.
DtoSpec == Init /\ [][DtoNext]_vars

(* ------------------------------------------------------------------ *)
(* The enum synthesizer                                                *)
(* ------------------------------------------------------------------ *)

\* Bound: enum objects built in one run
MaxEnums == 2

\* Enum nodes, by their value lists, and the options of union nodes: literals
\* of a primitive kind and other schemas.
EnumValues == { << "A", "B" >>, << "B", "A" >>, << "A" >>, << >> }

Literal(kind, value) == [typeName |-> "ZodLiteral", kind |-> kind, value |-> value]

UnionOptions ==
  { << Literal("string", "A"), Literal("string", "B") >>,
    << Literal("number", "1"), Literal("number", "2") >>,
    << Literal("string", "A"), Literal("number", "1") >>,
    << Literal("string", "A"), Leaf("ZodString") >>,
    << Leaf("ZodString"), Leaf("ZodString") >>,
    << >> }

\* How the host answers registerEnumType: it registers, it throws, or the
\* module cannot be loaded.
EnumHosts == {"ok", "throws", "absent"}

\* The key of a value list when the order of its values counts.
EnumKeyInOrder(values) == values

\* The cache key of a value list: its values, sorted and deduplicated.
EnumKey(values) == {values[i] : i \in 1..Len(values)}

\* The state of the synthesizer, threaded through a call.
EnumState(registry, made, calls) ==
  [registry |-> registry, made |-> made, calls |-> calls, err |-> FALSE,
   val |-> Scalar(Undefined)]

EnumEnter == EnumState(enumRegistry, enumsMade, registerEnumTypeCalls)

\* registerEnumType(enumObject, {name}): absent a host nothing is called; a
\* host that throws leaves err set.
registerEnumType(es, host, enumObject) ==
  IF host = "absent" THEN es
  ELSE [es EXCEPT !.calls = Append(@, [enum |-> enumObject,
                                       ok |-> host = "ok"]),
                  !.err = (host = "throws")]

\* A failed registration passed on to the caller.
RethrowRegistration(es) == es

\* A failed registration is swallowed.
SwallowRegistration(es) == [es EXCEPT !.err = FALSE]

\* getOrCreateGraphQLEnum for an Enum node: the cached enum of the value set,
\* or a new mapping of every value to itself, registered best-effort and
\* cached.
getOrCreateGraphQLEnum(es, host, values) ==
  LET key == EnumKey(values)
      enumObject == [id |-> es.made + 1,
                     mapping |-> [v \in {values[i] : i \in 1..Len(values)}
                                    |-> v]]
      Registered(r) ==
        IF r.err THEN r
        ELSE [r EXCEPT !.registry = Bind(@, key, enumObject),
                       !.val = enumObject]
  IN  IF key \in DOMAIN es.registry
        THEN [es EXCEPT !.val = es.registry[key]]
        ELSE Registered(SwallowRegistration(
               registerEnumType([es EXCEPT !.made = @ + 1], host,
                                enumObject)))

\* handleUnionType with a union of literals of mixed kinds taken for an enum.
handleUnionTypeAnyLiterals(es, host, options) ==
  IF /\ options # << >>
     /\ \A i \in 1..Len(options) : options[i].typeName = "ZodLiteral"
    THEN getOrCreateGraphQLEnum(es, host,
                                [i \in 1..Len(options) |-> options[i].value])
    ELSE [es EXCEPT !.val = Scalar("String")]

\* handleUnionType: literals of one primitive kind make an enum of their
\* values; any other union is String.
handleUnionType(es, host, options) ==
  IF /\ options # << >>
     /\ \A i \in 1..Len(options) : options[i].typeName = "ZodLiteral"
     /\ \A i, j \in 1..Len(options) : options[i].kind = options[j].kind
    THEN getOrCreateGraphQLEnum(es, host,
                                [i \in 1..Len(options) |-> options[i].value])
    ELSE [es EXCEPT !.val = Scalar("String")]

\* clearEnumRegistry: the cache is emptied.
clearEnumRegistry(es) == [es EXCEPT !.registry = << >>]

\* The step of a synthesizer call whose caller observes the result.
EnumStep(es, op, input) ==
  /\ es.made <= MaxEnums
  /\ enumRegistry' = es.registry
  /\ enumsMade' = es.made
  /\ registerEnumTypeCalls' = es.calls
  /\ enumsReturned' =
       IF es.err \/ es.val = Scalar("String") THEN enumsReturned
       ELSE enumsReturned \cup {[values |-> DOMAIN es.val.mapping,
                                 id |-> es.val.id]}
  /\ probe' = Probe(op, input, << >>, es.err, es.val)
  /\ last' = Last(op, es.err)
  /\ UNCHANGED << registryVars, dtos, zodInstances, callStack >>

GetOrCreateGraphQLEnumCall ==
  \E values \in EnumValues, host \in EnumHosts :
    EnumStep(getOrCreateGraphQLEnum(EnumEnter, host, values),
             "getOrCreateGraphQLEnum", [values |-> values, host |-> host])

HandleUnionTypeCall ==
  \E options \in UnionOptions, host \in EnumHosts :
    EnumStep(handleUnionType(EnumEnter, host, options),
             "handleUnionType", [options |-> options, host |-> host])

ClearEnumRegistry ==
  /\ enumRegistry' = clearEnumRegistry(EnumEnter).registry
  /\ registerEnumTypeCalls' = << >>
  /\ enumsReturned' = {}
  /\ probe' = NoProbe
  /\ last' = Last("clearEnumRegistry", FALSE)
  /\ UNCHANGED << enumsMade, registryVars, dtos, zodInstances, callStack >>

EnumNext ==
  \/ GetOrCreateGraphQLEnumCall
  \/ HandleUnionTypeCall
  \/ ClearEnumRegistry

EnumSpec == Init /\ [][EnumNext]_vars

(* ------------------------------------------------------------------ *)
(* Properties of createZodDto, the type mapper and the synthesizer     *)
(* ------------------------------------------------------------------ *)

\* C13: createZodDto with graphql options and a usable host registers an
\* input type when isInput is true, an object type when isInput is false
\* whatever the name, and otherwise an input type exactly when the graphql
\* name contains "input", "create" or "update" in any letter case.
ExplicitFlagDecides ==
  (probe.op = "createZodDto" /\ probe.input.options.graphql
   /\ probe.input.env = HostOk)
    => LET options == probe.input.options
           expected ==
             IF options.isInput = "true" THEN "InputType"
             ELSE IF options.isInput = "false" THEN "ObjectType"
             ELSE IF /\ options.gqlName # Undefined
                     /\ \E w \in {"input", "create", "update"} :
                          includes(toLowerCase(options.gqlName), w)
               THEN "InputType"
               ELSE "ObjectType"
       IN  /\ ~probe.threw
           /\ probe.calls # << >>
           /\ probe.calls[1].op = expected
           /\ \A i \in 2..Len(probe.calls) : probe.calls[i].op = "Field"

NullableFromOutermostNode ==
  probe.op = "createZodDto"
    => \A i \in 1..Len(probe.calls) :
         LET call == probe.calls[i]
             shape == Def(probe.input.schema).shape
         IN  (call.op = "Field" /\ call.cls = probe.calls[1].cls)
               => \E j \in 1..Len(shape) :
                    /\ shape[j].name = call.field
                    /\ call.nullable =
                         (Def(shape[j].schema).typeName
                            \in {"ZodOptional", "ZodNullable", "ZodDefault"})

\* C15 witness: all seven fields of ProfileSchema have been registered; tags,
\* an array of optional strings, is a list of String and not nullable, and
\* nickname, an optional string, is a nullable String.
ArrayOfOptionalNotNullable ==
  /\ probe.op = "createZodDto"
  /\ probe.input.schema = "ProfileSchema"
  /\ Len(probe.calls) = 1 + Len(ProfileShape)
  /\ \E i \in 1..Len(probe.calls) :
       /\ probe.calls[i].field = "tags"
       /\ probe.calls[i].type = [list |-> 1, of |-> "String"]
       /\ ~probe.calls[i].nullable
  /\ \E i \in 1..Len(probe.calls) :
       /\ probe.calls[i].field = "nickname"
       /\ probe.calls[i].type = Scalar("String")
       /\ probe.calls[i].nullable

\* The values of a value list, as a set.
ValueSet(values) == {values[i] : i \in 1..Len(values)}

UnionOfLiteralsIsEnum ==
  probe.op = "handleUnionType"
    => LET options == probe.input.options
           literals == {i \in 1..Len(options) :
                          options[i].typeName = "ZodLiteral"}
           kinds == {options[i].kind : i \in literals}
       IN  /\ ~probe.threw
           /\ IF /\ options # << >>
                 /\ literals = 1..Len(options)
                 /\ Cardinality(kinds) = 1
                THEN /\ DOMAIN probe.val.mapping
                          = {options[i].value : i \in literals}
                     /\ \A v \in DOMAIN probe.val.mapping :
                          probe.val.mapping[v] = v
                ELSE probe.val = Scalar("String")

\* C17 witness: the union of the number literals 1 and 2 became an enum.
NumberLiteralsBecameEnum ==
  /\ probe.op = "handleUnionType"
  /\ probe.input.options = << Literal("number", "1"), Literal("number", "2") >>
  /\ DOMAIN probe.val.mapping = {"1", "2"}

\* C18: getOrCreateGraphQLEnum does not throw, whatever the host does: it
\* returns the mapping of every value to itself (the empty mapping for an
\* empty value list), the mapping is cached, and it is the object every
\* caller has been given for this value set since the last clear.
EnumSynthesisNeverFails ==
  probe.op = "getOrCreateGraphQLEnum"
    => /\ ~probe.threw
       /\ DOMAIN probe.val.mapping = ValueSet(probe.input.values)
       /\ \A v \in DOMAIN probe.val.mapping : probe.val.mapping[v] = v
       /\ \E k \in DOMAIN enumRegistry : enumRegistry[k] = probe.val
       /\ \A r \in enumsReturned :
            r.values = ValueSet(probe.input.values) => r.id = probe.val.id

\* C18 witness: the only registration threw, and a later call under a host
\* that registers was given the object of the failed registration.
CachedAfterFailedRegistration ==
  /\ probe.op = "getOrCreateGraphQLEnum"
  /\ probe.input.host = "ok"
  /\ Len(registerEnumTypeCalls) = 1
  /\ ~registerEnumTypeCalls[1].ok
  /\ registerEnumTypeCalls[1].enum = probe.val
  /\ probe.val.mapping # << >>

\* A method call on a held class returned a new DTO class of the schema the
\* same zod operation gives, and every class held before is as it was.
ReturnedDto(i, call) ==
  /\ ~probe'.threw
  /\ Len(dtos') = Len(dtos) + 1
  /\ dtos'[Len(dtos')].isZodDto
  /\ dtos'[Len(dtos')].schema = MethodSchema(dtos[i], call)
  /\ call.op # "clone" =>
       zodInstances'[dtos'[Len(dtos')].schema]
         = ZodApply(zodInstances, dtos[i].schema, call)
  /\ \A j \in 1..Len(dtos) :
       /\ dtos'[j] = dtos[j]
       /\ DefIn(zodInstances', dtos[j].schema) = Def(dtos[j].schema)

\* C19: every schema-algebra method of a DTO class built from an object schema
\* without graphql options returns a new DTO class whose schema is the result of
\* the same operation on the schema of the class, and leaves the classes held
\* before unchanged, however long the chain that led to the class.
AlgebraReturnsDto ==
  [][(/\ probe'.op \in DtoMethods
      /\ probe' # probe
      /\ ~dtos[probe'.input.on].options.graphql
      /\ Def(dtos[probe'.input.on].schema).typeName = "ZodObject")
       => ReturnedDto(probe'.input.on, probe'.input.call)]_vars

\* C20: the partial() of a DTO class of an object schema has the field names of
\* the class it was derived from, in the same order, and isOptional is true for
\* each of them.
PartialKeepsFieldNames ==
  \A j \in 1..Len(dtos) :
    (/\ dtos[j].via.op = "partial"
     /\ Def(dtos[dtos[j].from].schema).typeName = "ZodObject")
      => /\ getFieldNames(dtos[j]) = getFieldNames(dtos[dtos[j].from])
         /\ \A k \in 1..Len(getFieldNames(dtos[j])) :
              isOptional(dtos[j], getFieldNames(dtos[j])[k])

\* createZodDto(AuthorSchema).partial() is held: its field names are id and
\* name, neither of which was optional in AuthorSchema.
PartialOfAuthorHeld ==
  \E j \in 1..Len(dtos) :
    /\ dtos[j].via.op = "partial"
    /\ dtos[j].from = 1
    /\ dtos[1].schema = "AuthorSchema"
    /\ getFieldNames(dtos[j]) = <<"id", "name">>
    /\ ~isOptional(dtos[1], "id")
    /\ isOptional(dtos[j], "id")

\* The key list a pick or omit call was given.
KeyListOf(call) == CHOOSE k \in KeyLists : Join(k) = call.arg

\* C21: pick and omit take a list of field names.  The pick(K) of a DTO class
\* of an object schema has exactly the fields of that schema that are in K, and
\* its omit(K) exactly the fields that are not in K, in the order of the shape.
PickAndOmitByName ==
  \A j \in 1..Len(dtos) :
    (/\ dtos[j].via.op \in {"pick", "omit"}
     /\ Def(dtos[dtos[j].from].schema).typeName = "ZodObject")
      => LET K == {KeyListOf(dtos[j].via)[i] :
                     i \in 1..Len(KeyListOf(dtos[j].via))}
             names == getFieldNames(dtos[dtos[j].from])
             kept == IF dtos[j].via.op = "pick"
                       THEN {n \in Keys(Def(dtos[dtos[j].from].schema).shape) :
                               n \in K}
                       ELSE {n \in Keys(Def(dtos[dtos[j].from].schema).shape) :
                               n \notin K}
         IN  getFieldNames(dtos[j])
               = ShapeNames(SelectEntries(Def(dtos[dtos[j].from].schema).shape,
                                          kept))

\* The required fields of an object schema the input object lacks, when a text
\* of the list errors starts with the path of each of them.
MissingAreNamed(schema, input, errors) ==
  \A i \in 1..Len(Def(schema).shape) :
    (/\ input.kind = "object"
     /\ Def(schema).shape[i].name \notin DOMAIN input.fields
     /\ ~AcceptsUndefined(Def(schema).shape[i].schema))
      => \E k \in 1..Len(errors) :
           SubSeq(errors[k], 1, Len(Def(schema).shape[i].name))
             = Def(schema).shape[i].name

\* What the claim says of a rejected input and of getValidationErrors: a
\* missing required field is named by the failure parse raises and by an entry
\* of getValidationErrors, which is empty exactly for accepted inputs.
FailureNamesThePath ==
  /\ probe.op \in {"create", "parse", "validate", "fromPlainObject"} =>
       /\ probe.threw
            <=> ZodParse(probe.input.schema, probe.input.value, "").issues
                  # << >>
       /\ MissingAreNamed(probe.input.schema, probe.input.value,
                          probe.val.errors)
  /\ probe.op = "getValidationErrors" =>
       /\ ~probe.threw
       /\ MissingAreNamed(probe.input.schema, probe.input.value,
                          probe.val.val)
       /\ probe.val.val = << >>
            <=> ZodParse(probe.input.schema, probe.input.value, "").issues
                  = << >>

CallsOn(calls, cls) == {k \in 1..Len(calls) : calls[k].cls = cls}

\* What the claim says of a decorator call besides the order of its host
\* calls: the fields of the class are registered once each in declared order
\* as far as the host serves the calls, and the pair is in the registry and
\* pending when the call returns.
StepsOnceThenRecorded(o, cls, schema) ==
  /\ \E n \in 0..Len(Def(schema).shape) :
       FieldNamesOn(o.calls, cls) = SubSeq(ShapeNames(Def(schema).shape), 1, n)
  /\ o.hostOk => FieldNamesOn(o.calls, cls) = ShapeNames(Def(schema).shape)
  /\ getDtoFromSchema(o.s2c, schema) = cls
  /\ InPending(o.pend, cls, schema)

\* C23 as stated: in a decorator call the field registrations of a class come
\* before its type registration, which is the last host call made on the
\* class, for the decorated class and for every class synthesized below it; no
\* step is repeated, and the registry record and the pending enqueue follow.
FieldsThenType ==
  \A cls \in UserClasses, S \in DecoratorSchemas, isInput \in BOOLEAN,
     env \in Envs :
    LET o == Decorate(cls, S, isInput, env)
    IN  /\ o.hostOk =>
             \A c \in {o.calls[k].cls : k \in 1..Len(o.calls)} :
               \A k \in CallsOn(o.calls, c) :
                 o.calls[k].op # "Field"
                   <=> \A j \in CallsOn(o.calls, c) : j <= k
        /\ StepsOnceThenRecorded(o, cls, S)

\* C23 amended: in a decorator call the type registration of a class is the
\* first host call made on the class and its field registrations follow, for
\* the decorated class and for every class synthesized below it; no step is
\* repeated, and the registry record and the pending enqueue follow.
TypeThenFields ==
  \A cls \in UserClasses, S \in DecoratorSchemas, isInput \in BOOLEAN,
     env \in Envs :
    LET o == Decorate(cls, S, isInput, env)
    IN  /\ \A c \in {o.calls[k].cls : k \in 1..Len(o.calls)} :
             \A k \in CallsOn(o.calls, c) :
               o.calls[k].op # "Field"
                 <=> \A j \in CallsOn(o.calls, c) : k <= j
        /\ StepsOnceThenRecorded(o, cls, S)

\* C23 witness: both classes are registered, and decorating PostDto with
\* PostSchema on a working host registers the type PostDto first and then its
\* three fields, the last one after the calls on a synthesized class.
TypeRegisteredFirst ==
  /\ last.op = "decorate"
  /\ Len(dtoClassRegistry) = 2
  /\ LET o == Decorate("PostDto", "PostSchema", TRUE, HostOk)
     IN  /\ o.calls[1] = TypeCall(TRUE, "PostDto")
         /\ o.calls[Len(o.calls)].field = "authors"
         /\ o.calls[Len(o.calls)].cls = "PostDto"
         /\ Len(o.calls) > 4

\* C24: context propagation.  In a decorator call every type registration, of
\* the decorated class and of every class synthesized for a nested object
\* schema below it (directly, through array, optional, nullable and default
\* wrappers, and as a field of a synthesized class), is an input type
\* registration under ZodInputType and an object type registration under
\* ZodObjectType; with a usable host every synthesized class is so registered.
ContextPropagates ==
  \A cls \in UserClasses, S \in DecoratorSchemas \cup {"BlogSchema"},
     isInput \in BOOLEAN, env \in Envs :
    LET o == Decorate(cls, S, isInput, env)
    IN  /\ \A k \in 1..Len(o.calls) :
             o.calls[k].op # "Field"
               => o.calls[k].op = TypeCall(isInput, cls).op
        /\ (o.hostOk /\ ~env.disableGraphQL)
             => Cardinality({k \in 1..Len(o.calls) : o.calls[k].op # "Field"})
                  = o.made + 1

\* C24 witness: PostDto was decorated with PostSchema while no class is known
\* for AuthorSchema; ZodInputType on it synthesizes a class for the field
\* author and one for the array authors and registers both as input types.
NestedClassesAreInputTypes ==
  /\ last.op = "decorate"
  /\ dtoClassRegistry = << "PostDto" >>
  /\ schemaToClassMap["PostSchema"] = "PostDto"
  /\ schemaToClassMap["AuthorSchema"] = Undefined
  /\ LET o == Decorate("PostDto", "PostSchema", TRUE, HostOk)
     IN  /\ o.made = 2
         /\ \A n \in 1..2 :
              \E k \in 1..Len(o.calls) :
                o.calls[k] = TypeCall(TRUE, NewClass(n))

\* C25: the registry is consistent in both directions in every reachable
\* state.  When getDtoFromSchema(S) is class C, the schema recorded for C is S,
\* and no class is the class of two different schema instances.
RegistryBidirectional ==
  /\ \A S \in SchemaIds :
       getDtoFromSchema(schemaToClassMap, S) # Undefined
         => classToSchemaMap[getDtoFromSchema(schemaToClassMap, S)] = S
  /\ \A S1 \in SchemaIds, S2 \in SchemaIds :
       (/\ getDtoFromSchema(schemaToClassMap, S1) # Undefined
        /\ getDtoFromSchema(schemaToClassMap, S1)
             = getDtoFromSchema(schemaToClassMap, S2))
         => S1 = S2

\* C26: the registry grows monotonically.  No step of any operation removes a
\* schema key from the schema -> class map, a class key from the class ->
\* schema map or a class from the set of decorated classes; only the pending
\* queue is ever emptied.
RegistryGrowsMonotonically ==
  [][/\ \A S \in SchemaIds :
          schemaToClassMap[S] # Undefined => schemaToClassMap'[S] # Undefined
     /\ \A c \in UserClasses :
          classToSchemaMap[c] # Undefined => classToSchemaMap'[c] # Undefined
     /\ Len(dtoClassRegistry') >= Len(dtoClassRegistry)
     /\ SubSeq(dtoClassRegistry', 1, Len(dtoClassRegistry)) = dtoClassRegistry
     /\ Len(pendingDtoRegistrations') < Len(pendingDtoRegistrations)
          => /\ last'.op \in {"tick", "preRegisterAllDtos"}
             /\ pendingDtoRegistrations' = << >>]_vars

\* C26 witness: both classes were decorated and preRegisterAllDtos has emptied
\* the pending queue; both schema keys are still in the schema -> class map,
\* held by one class after an overwrite, and both class keys in the other map.
KeysKeptAfterDrain ==
  /\ last.op = "preRegisterAllDtos"
  /\ pendingDtoRegistrations = << >>
  /\ Len(dtoClassRegistry) = 2
  /\ schemaToClassMap["AuthorSchema"] # Undefined
  /\ schemaToClassMap["PostSchema"] # Undefined
  /\ schemaToClassMap["PostSchema"] = schemaToClassMap["AuthorSchema"]
  /\ \A c \in UserClasses : classToSchemaMap[c] # Undefined

ResolutionPriority ==
  \A S \in {s \in SchemaIds : Def(s).typeName = "ZodObject"},
     ctx \in BOOLEAN, env \in Envs :
    LET o == FieldTypeCall(S, ctx, env)
        same == {i \in 1..Len(pendingDtoRegistrations) :
                   pendingDtoRegistrations[i].schema = S}
        equivalent == {i \in 1..Len(pendingDtoRegistrations) :
                         schemasAreEquivalent(S,
                           pendingDtoRegistrations[i].schema)}
    IN  /\ schemaToClassMap[S] # Undefined
             => o.result = Scalar(schemaToClassMap[S])
        /\ (schemaToClassMap[S] = Undefined /\ same # {})
             => \E i \in same :
                  /\ \A j \in same : i <= j
                  /\ o.result = Scalar(pendingDtoRegistrations[i].cls)
        /\ (schemaToClassMap[S] = Undefined /\ same = {}
            /\ equivalent # {})
             => \E i \in equivalent :
                  /\ \A j \in equivalent : i <= j
                  /\ o.result = Scalar(pendingDtoRegistrations[i].cls)
        /\ o.made > 0
             <=> (schemaToClassMap[S] = Undefined /\ same = {}
                  /\ equivalent = {})

\* C28 witness: two classes are pending with AuthorSchema, PostDto enqueued
\* first, the described copy of AuthorSchema has no class, and resolving it
\* returns PostDto without synthesizing a class.
EarliestEquivalentReturned ==
  /\ Len(pendingDtoRegistrations) = 2
  /\ pendingDtoRegistrations[1] = [cls |-> "PostDto", schema |-> "AuthorSchema"]
  /\ pendingDtoRegistrations[2].schema = "AuthorSchema"
  /\ schemaToClassMap["AuthorDescribed"] = Undefined
  /\ FieldTypeCall("AuthorDescribed", FALSE, HostOk).result = Scalar("PostDto")
  /\ FieldTypeCall("AuthorDescribed", FALSE, HostOk).made = 0

\* C29: schemasAreEquivalent is reflexive and symmetric, and it holds exactly
\* when the two schemas are the same instance after unwrapping one wrapper
\* layer on each side, or both unwrapped schemas are objects with the same set
\* of field names, whatever the order and the types of the fields.
EquivalenceCharacterised ==
  probe.op = "schemasAreEquivalent" =>
    LET OneLayerDown(s) ==
          IF Def(s).typeName \in {"ZodOptional", "ZodNullable", "ZodDefault"}
            THEN Def(s).innerType
            ELSE s
        a == OneLayerDown(probe.input.schema1)
        b == OneLayerDown(probe.input.schema2)
    IN  /\ probe.val.val
             <=> \/ a = b
                 \/ /\ Def(a).typeName = "ZodObject"
                    /\ Def(b).typeName = "ZodObject"
                    /\ {Def(a).shape[i].name : i \in 1..Len(Def(a).shape)}
                         = {Def(b).shape[i].name : i \in 1..Len(Def(b).shape)}
        /\ probe.input.schema1 = probe.input.schema2 => probe.val.val
        /\ probe.val.val
             = schemasAreEquivalent(probe.input.schema2, probe.input.schema1)

\* C29 witness: an optional AuthorSchema (id, name) was compared with a
\* nullable WriterSchema (name, id, of other types) and found equivalent.
ReorderedObjectsEquivalent ==
  /\ probe.op = "schemasAreEquivalent"
  /\ probe.input.schema1 = "AuthorOptional"
  /\ probe.input.schema2 = "WriterNullable"
  /\ probe.val.val

\* C30: the input context only affects synthesis.  In every reachable state
\* and for every host, getGraphQLFieldType of an object schema with a
\* registered class C returns C in the input and in the object context alike,
\* makes no class and no host call and leaves the registry as it is; and for
\* every schema, when no class is synthesized the two contexts give the same
\* type.  So a field of an input type and a field of an object type whose
\* schema is registered both get the registered class.
ContextOnlyAffectsSynthesis ==
  /\ \A S \in SchemaIds, env \in Envs :
       LET input == FieldTypeCall(S, TRUE, env)
           object == FieldTypeCall(S, FALSE, env)
       IN  /\ input.made = object.made
           /\ input.made = 0 => input.result = object.result
           /\ (Def(S).typeName = "ZodObject" /\ schemaToClassMap[S] # Undefined)
                => /\ input.result = Scalar(schemaToClassMap[S])
                   /\ object.result = Scalar(schemaToClassMap[S])
                   /\ input.made = 0 /\ input.calls = << >>
                   /\ object.calls = << >>
                   /\ input.s2c = schemaToClassMap
                   /\ object.s2c = schemaToClassMap
  /\ schemaToClassMap["AuthorSchema"] # Undefined
       => \A isInput \in BOOLEAN :
            LET o == Decorate("PostDto", "PostSchema", isInput, HostOk)
            IN  /\ o.made = 0
                /\ FieldTypeOn(o.calls, "PostDto", "author")
                     = Scalar(schemaToClassMap["AuthorSchema"])

\* C30 witness: AuthorDto alone was decorated, with AuthorSchema, which
\* ZodObjectType does as well as ZodInputType; AuthorDto is then the type
\* resolved for AuthorSchema in the input context and the type of the field
\* author of PostDto under ZodInputType.
ObjectTypeUnderInputField ==
  /\ last.op = "decorate"
  /\ dtoClassRegistry = << "AuthorDto" >>
  /\ schemaToClassMap["AuthorSchema"] = "AuthorDto"
  /\ FieldTypeCall("AuthorSchema", TRUE, HostOk).result = Scalar("AuthorDto")
  /\ FieldTypeOn(Decorate("PostDto", "PostSchema", TRUE, HostOk).calls,
                 "PostDto", "author") = Scalar("AuthorDto")

\* C31: scheduling invariant.  In every reachable state a non-empty pending
\* queue has a drain callback scheduled: fieldResolutionScheduled is true and
\* a callback waits in the nextTick queue.  No decorator call,
\* triggerDelayedResolution, preRegisterAllDtos or drain callback leaves the
\* queue non-empty with the flag false.
PendingImpliesScheduled ==
  pendingDtoRegistrations # << >>
    => fieldResolutionScheduled /\ nextTickQueue > 0

\* C31 witness: preRegisterAllDtos emptied the queue while a drain was
\* scheduled, and a decorator call then enqueued a class again under the same
\* scheduled callback: one callback waits, the flag is set, one class pends.
EnqueuedUnderScheduledDrain ==
  /\ last.op = "decorate"
  /\ Len(pendingDtoRegistrations) = 1
  /\ Len(dtoClassRegistry) = 2
  /\ fieldResolutionScheduled
  /\ nextTickQueue = 1

\* C32: distinct auto-generated classes get distinct display names.  Whatever
\* the clock reads, any two classes synthesized while a field type is resolved
\* are registered with the host under different names, also when both are
\* synthesized within one reading of the clock.
DistinctAutoGeneratedNames ==
  probe.op = "getGraphQLFieldType" =>
    \A clock \in ClockReadings(Cardinality({k \in 1..Len(probe.calls) :
                                              probe.calls[k].op # "Field"})) :
      \A a \in RegisteredNames(probe.calls, clock),
         b \in RegisteredNames(probe.calls, clock) :
        a.cls # b.cls => a.name # b.name

\* C33: no duplicate type names from chaining.  When a method is called, with
\* a usable host, on a DTO class built with graphql options, the call issues
\* no type registration under the name the class it was called on has.
NoSecondRegistrationOfName ==
  (/\ probe.op \in DtoMethods
   /\ ~probe.threw
   /\ probe.input.env = HostOk
   /\ dtos[probe.input.on].options.graphql)
    => ~ /\ \E k \in 1..Len(probe.calls) : probe.calls[k].op # "Field"
         /\ graphqlName(dtos[Len(dtos)].options)
              = graphqlName(dtos[probe.input.on].options)

\* The nesting depth of a schema tree: the number of nodes on its longest
\* path from the root to a leaf.
RECURSIVE NestingDepth(_)
NestingDepth(s) ==
  CASE Def(s).typeName = "ZodArray" -> 1 + NestingDepth(Def(s).type)
    [] Def(s).typeName \in {"ZodOptional", "ZodNullable", "ZodDefault"} ->
         1 + NestingDepth(Def(s).innerType)
    [] Def(s).typeName = "ZodObject" /\ Def(s).shape # << >> ->
         LET depths == {NestingDepth(Def(s).shape[i].schema) :
                          i \in 1..Len(Def(s).shape)}
         IN  1 + (CHOOSE d \in depths : \A e \in depths : e <= d)
    [] OTHER -> 1

\* C34: termination.  A decorator call and a createZodDto call with graphql
\* options that have begun come to their end, the nested synthesis included,
\* and while they run the call stack holds at most three frames
\* (getGraphQLFieldType, getOrCreateDtoClass, createZodDto) per level of
\* nesting of the schema the call was given.
TerminatesWithinDepth ==
  /\ [](callStack # << >>
          => Len(callStack) <= 3 * NestingDepth(callStack[1].schema))
  /\ (callStack # << >>) ~> (callStack = << >>)

\* C34 witness: a decorator call is inside the field loop of a class
\* synthesized within the field loop of another synthesized class, resolving
\* the type of a scalar field.
NestedSynthesisRunning ==
  /\ callStack # << >>
  /\ callStack[1].fn = "decorator"
  /\ \E i \in 1..Len(callStack), j \in 1..Len(callStack) :
       /\ i < j
       /\ callStack[i].fn = "createZodDto"
       /\ callStack[j].fn = "createZodDto"
  /\ callStack[Len(callStack)].fn = "getGraphQLFieldType"
  /\ Def(callStack[Len(callStack)].schema).typeName = "ZodNumber"

\* C35: strip never raises.  For an input the schema accepts it returns the
\* parsed data: an object with the fields of the schema only, each with the
\* value the input gives it; for a rejected input it returns the input itself,
\* unknown properties included, and reports nothing.
StripNeverRaises ==
  probe.op = "strip" =>
    /\ ~probe.threw
    /\ probe.val.errors = << >>
    /\ IF getValidationErrors(probe.input.schema, probe.input.value).val
            = << >>
         THEN /\ probe.val.val = parse(probe.input.schema,
                                       probe.input.value).val
              /\ DOMAIN probe.val.val.fields
                   \subseteq Keys(Def(probe.input.schema).shape)
              /\ \A n \in DOMAIN probe.val.val.fields
                            \cap DOMAIN probe.input.value.fields :
                   probe.val.val.fields[n] = probe.input.value.fields[n]
         ELSE probe.val.val = probe.input.value

\* C35 witness: strip was given an object AuthorSchema rejects, with a
\* property the schema does not know, and returned it as it was.
RejectedInputReturned ==
  /\ probe.op = "strip"
  /\ probe.input.schema = "AuthorSchema"
  /\ getValidationErrors("AuthorSchema", probe.input.value).val # << >>
  /\ probe.input.value.kind = "object"
  /\ "extra" \in DOMAIN probe.input.value.fields
  /\ ~probe.threw
  /\ probe.val.val = probe.input.value

\* C36: every schema held in the pending queue is a key of the schema -> class
\* map, so for no pending schema, context or host does getOrCreateDtoClass take
\* its pending-identity step, and the pendingMatches counter is 0 in every
\* reachable state.
PendingSchemasAreMapped ==
  /\ \A i \in 1..Len(pendingDtoRegistrations) :
       /\ schemaToClassMap[pendingDtoRegistrations[i].schema] # Undefined
       /\ \A ctx \in BOOLEAN, env \in Envs :
            LET o == FieldTypeCall(pendingDtoRegistrations[i].schema, ctx, env)
            IN  /\ o.counted.pendingMatches = resolutionStats.pendingMatches
                /\ o.counted.directHits = 1
  /\ resolutionStats.pendingMatches = 0

\* C36 witness: two classes pend, AuthorSchema among their schemas, and the
\* type of AuthorSchema was just resolved: by the direct lookup, the counter
\* of pending matches still 0.
PendingResolvedDirectly ==
  /\ last.op = "getGraphQLFieldType"
  /\ Len(pendingDtoRegistrations) = 2
  /\ \E i \in 1..2 : pendingDtoRegistrations[i].schema = "AuthorSchema"
  /\ FieldTypeCall("AuthorSchema", FALSE, HostOk).counted.directHits = 1
  /\ resolutionStats.pendingMatches = 0

====
